---- MODULE Spec2Model ----
\* Appointment tool endpoints of the retell backend (final iteration, index.mjs):
\* book / cancel / reschedule over a row store (appointments, tool_idempotency)
\* and a per-client external calendar.  Every request handler is an async
\* function; one action of this model is one awaited store/calendar call
\* together with the synchronous code that follows it up to the next await.
EXTENDS Integers, Sequences, FiniteSets, TLC

\* ---------------------------------------------------------------- bounds
NumProcs  == 2   \* request slots: requests in flight at the same time
MaxReq    == 2   \* requests received in one behaviour, interleaved and failing
MaxSeqReq == 3   \* requests received in one behaviour, one at a time

Procs == 1..NumProcs

\* ---------------------------------------------------------------- inputs
\* Time is counted in minutes from Monday 00:00 UTC of one week; request
\* timestamps are ISO strings carrying an offset, i.e. absolute instants.
\* All requests carry the tool token of client ClientA; ClientB is a second tenant
\* whose rows, calendar and ledger entries are in the store from the start.
ClientA        == "c1"
ClientB     == "c2"
Keys      == {"k1", "k2"}
NoKey     == ""
KeyInputs == Keys \cup {NoKey}
Phones    == {"p1"}
TORONTO   == "America/Toronto"

TzOffset(tz) == IF tz = TORONTO THEN 0 - 300 ELSE 0

\* instant of local wall-clock time day/hh:mm in zone tz (day 1 = Monday)
At(tz, day, hh, mm) == (day - 1) * 1440 + hh * 60 + mm - TzOffset(tz)

IvA == [s |-> At(TORONTO, 1, 10, 0),  e |-> At(TORONTO, 1, 10, 30)]
IvB == [s |-> At(TORONTO, 1, 10, 15), e |-> At(TORONTO, 1, 10, 45)]
IvC == [s |-> At(TORONTO, 1, 11, 0),  e |-> At(TORONTO, 1, 11, 30)]
IvL == [s |-> At(TORONTO, 1, 12, 0),  e |-> At(TORONTO, 1, 12, 30)]
Intervals == {IvA, IvB, IvC, IvL}

VARIABLES
  appts,      \* table appointments: sequence of rows, row id = index
  events,     \* calendar events that currently exist (all calendars)
  nextEvent,  \* next event id the calendar provider hands out
  idem,       \* table tool_idempotency: set of rows, unique on the key triple
  pc,         \* per request slot: the await the handler is suspended at
  req,        \* per request slot: the request (token-locked client_id + body)
  loc,        \* per request slot: the handler's local variables
  resp,       \* per request slot: the HTTP response sent
  trace,      \* per request slot: store/calendar calls issued so far
  nreq        \* number of requests received

vars == <<appts, events, nextEvent, idem, pc, req, loc, resp, trace, nreq>>

NoResp == [status |-> 0]
NoReq  == [op |-> "none", client_id |-> "", idempotency_key |-> NoKey,
           start_time |-> 0, end_time |-> 0, customer_phone |-> "", appointment_id |-> 0]
NoLoc  == [google_event_id |-> 0, row_id |-> 0, old_id |-> 0, old_event_id |-> 0,
           old_phone |-> "", prior |-> NoResp]

\* ------------------------------------------------------- rows
NewRow(client_id, phone, s, e, event_id, previous) ==
  [client_id |-> client_id, customer_phone |-> phone, start_time |-> s, end_time |-> e,
   status |-> "booked", google_event_id |-> event_id, previous_appointment_id |-> previous]

BookResponse(appointment_id, google_event_id, start_time, end_time) ==
  [status |-> 200, ok |-> TRUE, appointment_id |-> appointment_id,
   google_event_id |-> google_event_id, start_time |-> start_time, end_time |-> end_time]

IdemRow(client_id, tool_name, idempotency_key, response) ==
  [client_id |-> client_id, tool_name |-> tool_name,
   idempotency_key |-> idempotency_key, response |-> response]

\* ------------------------------------------------------- business rules
getDefaultBusinessRules(timezone) ==
  [timezone |-> timezone, allow_weekends |-> FALSE, start_hour |-> 9, end_hour |-> 17,
   lunch_start_hour |-> 12, lunch_end_hour |-> 13, step_minutes |-> 15]

\* luxon DateTime fields of an instant seen in a zone
LocalMin(t, tz) == t + TzOffset(tz)
Weekday(t, tz)  == ((LocalMin(t, tz) \div 1440) % 7) + 1
MinOfDay(t, tz) == LocalMin(t, tz) % 1440
\* start.set({hour: h, minute: 0}): same local date, wall clock h:00
SetHour(t, tz, h) == t - MinOfDay(t, tz) + h * 60

\* Interval.overlaps of luxon: half-open
Overlaps(s1, e1, s2, e2) == s1 < e2 /\ e1 > s2

\* a timestamp string that does not parse (DateTime.isValid is false)
InvalidISO == 0 - 1
\* a rule field that is null
Null == 0 - 2

\* mutant: the order of start and end is not checked
validateNoOrderCheck(startISO, endISO, rules) ==
  LET tz == rules.timezone
      startHour60 == MinOfDay(startISO, tz)
      endHour60   == MinOfDay(endISO, tz)
  IN  IF startISO = InvalidISO \/ endISO = InvalidISO
        THEN [ok |-> FALSE, error |-> "Invalid start/end time"]
      ELSE IF ~rules.allow_weekends /\ Weekday(startISO, tz) \in {6, 7}
        THEN [ok |-> FALSE, error |-> "Closed on weekends"]
      ELSE IF startHour60 < rules.start_hour * 60 \/ endHour60 > rules.end_hour * 60
        THEN [ok |-> FALSE, error |-> "Outside business hours"]
      ELSE IF /\ rules.lunch_start_hour # Null /\ rules.lunch_end_hour # Null
              /\ rules.lunch_end_hour > rules.lunch_start_hour
              /\ Overlaps(SetHour(startISO, tz, rules.lunch_start_hour),
                          SetHour(startISO, tz, rules.lunch_end_hour),
                          startISO, endISO)
        THEN [ok |-> FALSE, error |-> "Conflicts with lunch break"]
      ELSE [ok |-> TRUE, error |-> ""]

\* mutant: business hours are checked before the weekend
validateHoursFirst(startISO, endISO, rules) ==
  LET tz == rules.timezone
      startHour60 == MinOfDay(startISO, tz)
      endHour60   == MinOfDay(endISO, tz)
  IN  IF startISO = InvalidISO \/ endISO = InvalidISO
        THEN [ok |-> FALSE, error |-> "Invalid start/end time"]
      ELSE IF endISO <= startISO
        THEN [ok |-> FALSE, error |-> "end_time must be after start_time"]
      ELSE IF startHour60 < rules.start_hour * 60 \/ endHour60 > rules.end_hour * 60
        THEN [ok |-> FALSE, error |-> "Outside business hours"]
      ELSE IF ~rules.allow_weekends /\ Weekday(startISO, tz) \in {6, 7}
        THEN [ok |-> FALSE, error |-> "Closed on weekends"]
      ELSE IF /\ rules.lunch_start_hour # Null /\ rules.lunch_end_hour # Null
              /\ rules.lunch_end_hour > rules.lunch_start_hour
              /\ Overlaps(SetHour(startISO, tz, rules.lunch_start_hour),
                          SetHour(startISO, tz, rules.lunch_end_hour),
                          startISO, endISO)
        THEN [ok |-> FALSE, error |-> "Conflicts with lunch break"]
      ELSE [ok |-> TRUE, error |-> ""]

\* hour + minute/60 is compared with whole hours; scaled by 60 here
validateAgainstBusinessRules(startISO, endISO, rules) ==
  LET tz == rules.timezone
      startHour60 == MinOfDay(startISO, tz)
      endHour60   == MinOfDay(endISO, tz)
  IN  IF startISO = InvalidISO \/ endISO = InvalidISO
        THEN [ok |-> FALSE, error |-> "Invalid start/end time"]
      ELSE IF endISO <= startISO
        THEN [ok |-> FALSE, error |-> "end_time must be after start_time"]
      ELSE IF ~rules.allow_weekends /\ Weekday(startISO, tz) \in {6, 7}
        THEN [ok |-> FALSE, error |-> "Closed on weekends"]
      ELSE IF startHour60 < rules.start_hour * 60 \/ endHour60 > rules.end_hour * 60
        THEN [ok |-> FALSE, error |-> "Outside business hours"]
      ELSE IF /\ rules.lunch_start_hour # Null /\ rules.lunch_end_hour # Null
              /\ rules.lunch_end_hour > rules.lunch_start_hour
              /\ Overlaps(SetHour(startISO, tz, rules.lunch_start_hour),
                          SetHour(startISO, tz, rules.lunch_end_hour),
                          startISO, endISO)
        THEN [ok |-> FALSE, error |-> "Conflicts with lunch break"]
      ELSE [ok |-> TRUE, error |-> ""]

\* ------------------------------------------------------- conflict checks
\* freebusy.query over [startISO, endISO) of the client's calendar
isFreeInGoogleCalendar(calendar_id, startISO, endISO) ==
  {ev \in events : ev.cal = calendar_id /\ ev.s < endISO /\ ev.e > startISO} = {}

\* mutant: the query matches only a row with exactly the requested interval
hasOverlapExactOnly(client_id, startISO, endISO, ignoreAppointmentId) ==
  \E i \in 1..Len(appts) :
     /\ appts[i].client_id = client_id
     /\ appts[i].status = "booked"
     /\ appts[i].start_time = startISO
     /\ appts[i].end_time = endISO
     /\ (ignoreAppointmentId # 0 => i # ignoreAppointmentId)

\* mutant: the ignored appointment id is not applied
hasOverlapNoExclusion(client_id, startISO, endISO, ignoreAppointmentId) ==
  \E i \in 1..Len(appts) :
     /\ appts[i].client_id = client_id
     /\ appts[i].status = "booked"
     /\ appts[i].start_time < endISO
     /\ appts[i].end_time > startISO

\* mutant: the status of the row is not looked at
hasOverlapAnyStatus(client_id, startISO, endISO, ignoreAppointmentId) ==
  \E i \in 1..Len(appts) :
     /\ appts[i].client_id = client_id
     /\ appts[i].start_time < endISO
     /\ appts[i].end_time > startISO
     /\ (ignoreAppointmentId # 0 => i # ignoreAppointmentId)

hasOverlapInSupabase(client_id, startISO, endISO, ignoreAppointmentId) ==
  \E i \in 1..Len(appts) :
     /\ appts[i].client_id = client_id
     /\ appts[i].status = "booked"
     /\ appts[i].start_time < endISO
     /\ appts[i].end_time > startISO
     /\ (ignoreAppointmentId # 0 => i # ignoreAppointmentId)

\* ------------------------------------------------------- idempotency ledger
IdemRows(client_id, tool_name, idempotency_key) ==
  {r \in idem : /\ r.client_id = client_id /\ r.tool_name = tool_name
                /\ r.idempotency_key = idempotency_key}

\* mutant: the lookup does not filter on tool_name
getIdempotentResponseAnyTool(client_id, tool_name, idempotency_key) ==
  LET rows == {r \in idem : r.client_id = client_id /\ r.idempotency_key = idempotency_key}
  IN  IF idempotency_key = NoKey \/ rows = {} THEN NoResp
      ELSE (CHOOSE r \in rows : TRUE).response

\* the stored response, NoResp when there is no row
getIdempotentResponse(client_id, tool_name, idempotency_key) ==
  IF idempotency_key = NoKey \/ IdemRows(client_id, tool_name, idempotency_key) = {}
    THEN NoResp
    ELSE (CHOOSE r \in IdemRows(client_id, tool_name, idempotency_key) : TRUE).response

\* upsert on conflict (client_id, tool_name, idempotency_key)
saveIdempotentResponse(client_id, tool_name, idempotency_key, response) ==
  IF idempotency_key = NoKey THEN idem
  ELSE (idem \ IdemRows(client_id, tool_name, idempotency_key))
         \cup {IdemRow(client_id, tool_name, idempotency_key, response)}

\* ------------------------------------------------------- handler plumbing
Err(status, msg) == [status |-> status, ok |-> FALSE, error |-> msg]

\* one store or calendar call as the request's trace records it
Call(name, failed) == [call |-> name, ok |-> ~failed]

Calls(p) == {trace[p][n].call : n \in 1..Len(trace[p])}
FailedCalls(p) == {trace[p][n].call : n \in {m \in 1..Len(trace[p]) : ~trace[p][m].ok}}

\* the handler of slot p moves on to its next await
Goto(p, label, call) ==
  /\ pc' = [pc EXCEPT ![p] = label]
  /\ trace' = [trace EXCEPT ![p] = Append(@, call)]

\* res.json(...) / res.status(..).json(...): the handler of slot p returns
Respond(p, r, call) ==
  /\ pc' = [pc EXCEPT ![p] = "done"]
  /\ resp' = [resp EXCEPT ![p] = r]
  /\ trace' = [trace EXCEPT ![p] = Append(@, call)]

\* What the store and the calendars hold when the server starts.  ClientB has
\* booked IvA with key k1 (row 1, event 1).  ClientA has nothing, or has booked
\* IvA with key k1 (row 2, event 2), or ("stale") has booked it and a later
\* cancel deleted event 2 while its status update and ledger write failed.
\* ClientA's calendar may hold an event that somebody created outside this
\* system (event 3, 10:30-11:00 local).
OtherRow   == NewRow(ClientB, "p1", IvA.s, IvA.e, 1, 0)
OtherEvent == [id |-> 1, cal |-> ClientB, s |-> IvA.s, e |-> IvA.e]
OtherIdem  == IdemRow(ClientB, "book-appointment", "k1", BookResponse(1, 1, IvA.s, IvA.e))
MyRow      == NewRow(ClientA, "p1", IvA.s, IvA.e, 2, 0)
MyEvent    == [id |-> 2, cal |-> ClientA, s |-> IvA.s, e |-> IvA.e]
MyIdem     == IdemRow(ClientA, "book-appointment", "k1", BookResponse(2, 2, IvA.s, IvA.e))
ExtEvent   == [id |-> 3, cal |-> ClientA, s |-> At(TORONTO, 1, 10, 30), e |-> At(TORONTO, 1, 11, 0)]

Init ==
  /\ \E mine \in {"none", "booked", "stale"}, ext \in BOOLEAN :
       /\ appts = IF mine = "none" THEN <<OtherRow>> ELSE <<OtherRow, MyRow>>
       /\ events = {OtherEvent} \cup (IF mine = "booked" THEN {MyEvent} ELSE {})
                                \cup (IF ext THEN {ExtEvent} ELSE {})
       /\ idem = {OtherIdem} \cup (IF mine = "none" THEN {} ELSE {MyIdem})
  /\ nextEvent = 4
  /\ pc = [p \in Procs |-> "idle"]
  /\ req = [p \in Procs |-> NoReq]
  /\ loc = [p \in Procs |-> NoLoc]
  /\ resp = [p \in Procs |-> NoResp]
  /\ trace = [p \in Procs |-> <<>>]
  /\ nreq = 0

UP == "upstream failure"

\* A new request takes the lowest slot whose handler is not running (slots
\* are interchangeable); max bounds the number of requests of a behaviour.
Free(p, max) ==
  /\ pc[p] \in {"idle", "done"}
  /\ \A q \in Procs : q < p => pc[q] \notin {"idle", "done"}
  /\ nreq < max

\* mutant: a request without idempotency_key is let through to its handler
ArriveNoKeyCheck(p, r, label) ==
  /\ nreq' = nreq + 1
  /\ req' = [req EXCEPT ![p] = r]
  /\ loc' = [loc EXCEPT ![p] = [NoLoc EXCEPT !.prior =
               getIdempotentResponse(r.client_id, r.op, r.idempotency_key)]]
  /\ trace' = [trace EXCEPT ![p] = <<>>]
  /\ pc' = [pc EXCEPT ![p] = label]
  /\ resp' = [resp EXCEPT ![p] = NoResp]
  /\ UNCHANGED <<appts, events, nextEvent, idem>>

Arrive(p, r, label) ==
  /\ nreq' = nreq + 1
  /\ req' = [req EXCEPT ![p] = r]
  /\ loc' = [loc EXCEPT ![p] = [NoLoc EXCEPT !.prior =
               getIdempotentResponse(r.client_id, r.op, r.idempotency_key)]]
  /\ trace' = [trace EXCEPT ![p] = <<>>]
  /\ IF r.idempotency_key = NoKey
       THEN /\ pc' = [pc EXCEPT ![p] = "done"]
            /\ resp' = [resp EXCEPT ![p] = Err(400, "Missing idempotency_key")]
       ELSE /\ pc' = [pc EXCEPT ![p] = label]
            /\ resp' = [resp EXCEPT ![p] = NoResp]
  /\ UNCHANGED <<appts, events, nextEvent, idem>>

\* =============================================== POST /tools/book-appointment
BookRequest(p, max) ==
  /\ Free(p, max)
  /\ \E iv \in Intervals, k \in KeyInputs, ph \in Phones :
       Arrive(p, [op |-> "book-appointment", client_id |-> ClientA, idempotency_key |-> k,
                  start_time |-> iv.s, end_time |-> iv.e, customer_phone |-> ph,
                  appointment_id |-> 0], "b_idem")

\* client_tool_tokens: an active and a retired token of ClientA; a request
\* carries one of them, an unknown token or none
Tokens    == {"tA", "tOld", "tBad", ""}
TokenRows == {[token |-> "tA",   client_id |-> ClientA, is_active |-> TRUE],
              [token |-> "tOld", client_id |-> ClientA, is_active |-> FALSE]}

\* mutant: toolAuth does not look at is_active
getClientIdAnyToken(token, fails) ==
  LET data == {t \in TokenRows : t.token = token} IN
  IF fails \/ data = {} THEN [status |-> 401, error |-> "Unauthorized (token not found)"]
  ELSE [status |-> 200, client_id |-> (CHOOSE t \in data : TRUE).client_id]

\* mutant: book does not run the rule check
BookIdemNoRuleCheck(p, fails) ==
  /\ pc[p] = "b_idem"
  /\ LET r == req[p]
         prev == IF fails THEN NoResp
                 ELSE getIdempotentResponse(r.client_id, "book-appointment", r.idempotency_key)
     IN  IF prev # NoResp THEN Respond(p, prev, Call("idem.get", fails))
         ELSE Goto(p, "b_overlap", Call("idem.get", fails)) /\ UNCHANGED resp
  /\ UNCHANGED <<appts, events, nextEvent, idem, req, loc, nreq>>

\* getIdempotentResponse, then the rule check; a store error reads as "no row"
BookIdem(p, fails) ==
  /\ pc[p] = "b_idem"
  /\ LET r == req[p]
         prev == IF fails THEN NoResp
                 ELSE getIdempotentResponse(r.client_id, "book-appointment", r.idempotency_key)
         ruleCheck == validateAgainstBusinessRules(r.start_time, r.end_time,
                                                   getDefaultBusinessRules(TORONTO))
     IN  IF prev # NoResp THEN Respond(p, prev, Call("idem.get", fails))
         ELSE IF ~ruleCheck.ok THEN Respond(p, Err(400, ruleCheck.error), Call("idem.get", fails))
         ELSE Goto(p, "b_overlap", Call("idem.get", fails)) /\ UNCHANGED resp
  /\ UNCHANGED <<appts, events, nextEvent, idem, req, loc, nreq>>

\* mutant: the conflict answer is not returned; the handler goes on to the calendar
BookOverlapNoReturn(p, fails) ==
  /\ pc[p] = "b_overlap"
  /\ IF fails THEN Respond(p, Err(500, UP), Call("appts.overlap", fails))
     ELSE Goto(p, "b_cred", Call("appts.overlap", fails)) /\ UNCHANGED resp
  /\ UNCHANGED <<appts, events, nextEvent, idem, req, loc, nreq>>

BookOverlap(p, fails) ==
  /\ pc[p] = "b_overlap"
  /\ LET r == req[p] IN
       IF fails THEN Respond(p, Err(500, UP), Call("appts.overlap", fails))
       ELSE IF hasOverlapInSupabase(r.client_id, r.start_time, r.end_time, 0)
         THEN Respond(p, Err(409, "Time slot already booked"), Call("appts.overlap", fails))
       ELSE Goto(p, "b_cred", Call("appts.overlap", fails)) /\ UNCHANGED resp
  /\ UNCHANGED <<appts, events, nextEvent, idem, req, loc, nreq>>

\* mutant: the event is created before the calendar is asked
BookCredCreatesEvent(p, fails) ==
  /\ pc[p] = "b_cred"
  /\ LET r == req[p] IN
       IF fails
         THEN /\ Respond(p, Err(500, UP), Call("cred.get", fails))
              /\ UNCHANGED <<events, nextEvent, loc>>
         ELSE /\ events' = events \cup {[id |-> nextEvent, cal |-> r.client_id,
                                         s |-> r.start_time, e |-> r.end_time]}
              /\ nextEvent' = nextEvent + 1
              /\ loc' = [loc EXCEPT ![p].google_event_id = nextEvent]
              /\ Goto(p, "b_freebusy", Call("cred.get", fails)) /\ UNCHANGED resp
  /\ UNCHANGED <<appts, idem, req, nreq>>

\* getClientCalendar: the client's stored calendar credential
BookCred(p, fails) ==
  /\ pc[p] = "b_cred"
  /\ IF fails THEN Respond(p, Err(500, UP), Call("cred.get", fails))
     ELSE Goto(p, "b_freebusy", Call("cred.get", fails)) /\ UNCHANGED resp
  /\ UNCHANGED <<appts, events, nextEvent, idem, req, loc, nreq>>

\* mutant: a calendar conflict is recorded in the ledger like a success
BookFreeBusyRecordsConflict(p, fails) ==
  /\ pc[p] = "b_freebusy"
  /\ LET r == req[p] IN
       IF fails THEN Respond(p, Err(500, UP), Call("cal.freebusy", fails)) /\ UNCHANGED idem
       ELSE IF ~isFreeInGoogleCalendar(r.client_id, r.start_time, r.end_time)
         THEN /\ Respond(p, Err(409, "Time slot is busy in calendar"), Call("cal.freebusy", fails))
              /\ idem' = saveIdempotentResponse(r.client_id, "book-appointment", r.idempotency_key,
                                                Err(409, "Time slot is busy in calendar"))
       ELSE Goto(p, "b_evinsert", Call("cal.freebusy", fails)) /\ UNCHANGED <<resp, idem>>
  /\ UNCHANGED <<appts, events, nextEvent, req, loc, nreq>>

BookFreeBusy(p, fails) ==
  /\ pc[p] = "b_freebusy"
  /\ LET r == req[p] IN
       IF fails THEN Respond(p, Err(500, UP), Call("cal.freebusy", fails))
       ELSE IF ~isFreeInGoogleCalendar(r.client_id, r.start_time, r.end_time)
         THEN Respond(p, Err(409, "Time slot is busy in calendar"), Call("cal.freebusy", fails))
       ELSE Goto(p, "b_evinsert", Call("cal.freebusy", fails)) /\ UNCHANGED resp
  /\ UNCHANGED <<appts, events, nextEvent, idem, req, loc, nreq>>

BookEventInsert(p, fails) ==
  /\ pc[p] = "b_evinsert"
  /\ LET r == req[p] IN
       IF fails
         THEN /\ Respond(p, Err(500, UP), Call("cal.insert", fails))
              /\ UNCHANGED <<events, nextEvent, loc>>
         ELSE /\ events' = events \cup {[id |-> nextEvent, cal |-> r.client_id,
                                         s |-> r.start_time, e |-> r.end_time]}
              /\ nextEvent' = nextEvent + 1
              /\ loc' = [loc EXCEPT ![p].google_event_id = nextEvent]
              /\ Goto(p, "b_rowinsert", Call("cal.insert", fails)) /\ UNCHANGED resp
  /\ UNCHANGED <<appts, idem, req, nreq>>

\* mutant: the row is inserted without the id of the event just created
BookRowInsertNoEventId(p, fails) ==
  /\ pc[p] = "b_rowinsert"
  /\ LET r == req[p] IN
       IF fails
         THEN /\ Respond(p, Err(500, UP), Call("appts.insert", fails))
              /\ UNCHANGED <<appts, loc>>
         ELSE /\ appts' = Append(appts, NewRow(r.client_id, r.customer_phone, r.start_time,
                                               r.end_time, 0, 0))
              /\ loc' = [loc EXCEPT ![p].row_id = Len(appts) + 1]
              /\ Goto(p, "b_save", Call("appts.insert", fails)) /\ UNCHANGED resp
  /\ UNCHANGED <<events, nextEvent, idem, req, nreq>>

\* mutant: a failed insert is compensated by deleting the event just created
BookRowInsertCompensates(p, fails) ==
  /\ pc[p] = "b_rowinsert"
  /\ LET r == req[p] IN
       IF fails
         THEN /\ Respond(p, Err(500, UP), Call("appts.insert", fails))
              /\ events' = {ev \in events : ev.id # loc[p].google_event_id}
              /\ UNCHANGED <<appts, loc>>
         ELSE /\ appts' = Append(appts, NewRow(r.client_id, r.customer_phone, r.start_time,
                                               r.end_time, loc[p].google_event_id, 0))
              /\ loc' = [loc EXCEPT ![p].row_id = Len(appts) + 1]
              /\ Goto(p, "b_save", Call("appts.insert", fails)) /\ UNCHANGED <<resp, events>>
  /\ UNCHANGED <<nextEvent, idem, req, nreq>>

\* mutant: the table refuses a row that overlaps a booked row of the client
BookRowInsertUnique(p, fails) ==
  /\ pc[p] = "b_rowinsert"
  /\ LET r == req[p] IN
       IF fails \/ hasOverlapInSupabase(r.client_id, r.start_time, r.end_time, 0)
         THEN /\ Respond(p, Err(500, UP), Call("appts.insert", TRUE))
              /\ UNCHANGED <<appts, loc>>
         ELSE /\ appts' = Append(appts, NewRow(r.client_id, r.customer_phone, r.start_time,
                                               r.end_time, loc[p].google_event_id, 0))
              /\ loc' = [loc EXCEPT ![p].row_id = Len(appts) + 1]
              /\ Goto(p, "b_save", Call("appts.insert", fails)) /\ UNCHANGED resp
  /\ UNCHANGED <<events, nextEvent, idem, req, nreq>>

BookRowInsert(p, fails) ==
  /\ pc[p] = "b_rowinsert"
  /\ LET r == req[p] IN
       IF fails
         THEN /\ Respond(p, Err(500, UP), Call("appts.insert", fails))
              /\ UNCHANGED <<appts, loc>>
         ELSE /\ appts' = Append(appts, NewRow(r.client_id, r.customer_phone, r.start_time,
                                               r.end_time, loc[p].google_event_id, 0))
              /\ loc' = [loc EXCEPT ![p].row_id = Len(appts) + 1]
              /\ Goto(p, "b_save", Call("appts.insert", fails)) /\ UNCHANGED resp
  /\ UNCHANGED <<events, nextEvent, idem, req, nreq>>

\* saveIdempotentResponse, then res.json(response); the upsert's error is not looked at
BookSave(p, fails) ==
  /\ pc[p] = "b_save"
  /\ LET r == req[p]
         response == BookResponse(loc[p].row_id, loc[p].google_event_id,
                                  r.start_time, r.end_time)
     IN  /\ idem' = IF fails THEN idem
                    ELSE saveIdempotentResponse(r.client_id, "book-appointment",
                                                r.idempotency_key, response)
         /\ Respond(p, response, Call("idem.save", fails))
  /\ UNCHANGED <<appts, events, nextEvent, req, loc, nreq>>

Book(p, fails) ==
  \/ BookIdem(p, fails)
  \/ BookOverlap(p, fails)
  \/ BookCred(p, fails)
  \/ BookFreeBusy(p, fails)
  \/ BookEventInsert(p, fails)
  \/ BookRowInsert(p, fails)
  \/ BookSave(p, fails)

\* =============================================== POST /tools/cancel-appointment
CancelRequest(p, max) ==
  /\ Free(p, max)
  /\ \E id \in 1..Len(appts), k \in KeyInputs :
       Arrive(p, [op |-> "cancel-appointment", client_id |-> ClientA, idempotency_key |-> k,
                  start_time |-> 0, end_time |-> 0, customer_phone |-> "",
                  appointment_id |-> id], "c_idem")

CancelIdem(p, fails) ==
  /\ pc[p] = "c_idem"
  /\ LET r == req[p]
         prev == IF fails THEN NoResp
                 ELSE getIdempotentResponse(r.client_id, "cancel-appointment", r.idempotency_key)
     IN  IF prev # NoResp THEN Respond(p, prev, Call("idem.get", fails))
         ELSE Goto(p, "c_load", Call("idem.get", fails)) /\ UNCHANGED resp
  /\ UNCHANGED <<appts, events, nextEvent, idem, req, loc, nreq>>

\* select * from appointments where id = .. and client_id = .. (.single())
LoadAppointment(p, fails, next) ==
  LET r == req[p]
      id == r.appointment_id
      found == ~fails /\ id \in 1..Len(appts) /\ appts[id].client_id = r.client_id
  IN  IF found
        THEN /\ loc' = [loc EXCEPT ![p].old_id = id,
                                   ![p].old_event_id = appts[id].google_event_id,
                                   ![p].old_phone = appts[id].customer_phone]
             /\ Goto(p, next, Call("appts.load", FALSE)) /\ UNCHANGED resp
        ELSE /\ Respond(p, Err(500, UP), Call("appts.load", TRUE))
             /\ UNCHANGED loc

CancelLoad(p, fails) ==
  /\ pc[p] = "c_load"
  /\ LoadAppointment(p, fails, "c_cred")
  /\ UNCHANGED <<appts, events, nextEvent, idem, req, nreq>>

CancelCred(p, fails) ==
  /\ pc[p] = "c_cred"
  /\ IF fails THEN Respond(p, Err(500, UP), Call("cred.get", fails))
     ELSE /\ Goto(p, IF loc[p].old_event_id # 0 THEN "c_delete" ELSE "c_update", Call("cred.get", fails))
          /\ UNCHANGED resp
  /\ UNCHANGED <<appts, events, nextEvent, idem, req, loc, nreq>>

\* mutant: deleting an event that is already gone is accepted
DeleteEventIdempotent(p, fails, next) ==
  LET gone == {ev \in events : ev.cal = req[p].client_id /\ ev.id = loc[p].old_event_id}
  IN  IF fails
        THEN Respond(p, Err(500, UP), Call("cal.delete", TRUE)) /\ UNCHANGED events
        ELSE /\ events' = events \ gone
             /\ Goto(p, next, Call("cal.delete", FALSE)) /\ UNCHANGED resp

\* calendar.events.delete: rejects when the call fails or the event is gone
DeleteEvent(p, fails, next) ==
  LET gone == {ev \in events : ev.cal = req[p].client_id /\ ev.id = loc[p].old_event_id}
  IN  IF fails \/ gone = {}
        THEN Respond(p, Err(500, UP), Call("cal.delete", TRUE)) /\ UNCHANGED events
        ELSE /\ events' = events \ gone
             /\ Goto(p, next, Call("cal.delete", FALSE)) /\ UNCHANGED resp

\* mutant: the rejection of events.delete is caught and the handler goes on
CancelDeleteIgnoresError(p, fails) ==
  /\ pc[p] = "c_delete"
  /\ LET gone == {ev \in events : ev.cal = req[p].client_id /\ ev.id = loc[p].old_event_id}
     IN  /\ events' = IF fails THEN events ELSE events \ gone
         /\ Goto(p, "c_update", Call("cal.delete", fails \/ gone = {}))
  /\ UNCHANGED <<appts, nextEvent, idem, req, loc, resp, nreq>>

CancelDelete(p, fails) ==
  /\ pc[p] = "c_delete"
  /\ DeleteEvent(p, fails, "c_update")
  /\ UNCHANGED <<appts, nextEvent, idem, req, loc, nreq>>

\* update appointments set status = .. where id = ..; the error is not looked at
UpdateStatus(p, fails, status, next) ==
  LET id == loc[p].old_id IN
  /\ appts' = IF fails \/ id \notin 1..Len(appts) THEN appts
              ELSE [appts EXCEPT ![id].status = status]
  /\ Goto(p, next, Call("appts.update", fails)) /\ UNCHANGED resp

CancelUpdate(p, fails) ==
  /\ pc[p] = "c_update"
  /\ UpdateStatus(p, fails, "cancelled", "c_save")
  /\ UNCHANGED <<events, nextEvent, idem, req, loc, nreq>>

CancelSave(p, fails) ==
  /\ pc[p] = "c_save"
  /\ LET r == req[p]
         response == [status |-> 200, ok |-> TRUE, cancelled_appointment_id |-> loc[p].old_id]
     IN  /\ idem' = IF fails THEN idem
                    ELSE saveIdempotentResponse(r.client_id, "cancel-appointment",
                                                r.idempotency_key, response)
         /\ Respond(p, response, Call("idem.save", fails))
  /\ UNCHANGED <<appts, events, nextEvent, req, loc, nreq>>

Cancel(p, fails) ==
  \/ CancelIdem(p, fails)
  \/ CancelLoad(p, fails)
  \/ CancelCred(p, fails)
  \/ CancelDelete(p, fails)
  \/ CancelUpdate(p, fails)
  \/ CancelSave(p, fails)

\* =========================================== POST /tools/reschedule-appointment
RescheduleRequest(p, max) ==
  /\ Free(p, max)
  /\ \E id \in 1..Len(appts), iv \in Intervals, k \in KeyInputs :
       Arrive(p, [op |-> "reschedule-appointment", client_id |-> ClientA, idempotency_key |-> k,
                  start_time |-> iv.s, end_time |-> iv.e, customer_phone |-> "",
                  appointment_id |-> id], "r_idem")

RescheduleIdem(p, fails) ==
  /\ pc[p] = "r_idem"
  /\ LET r == req[p]
         prev == IF fails THEN NoResp
                 ELSE getIdempotentResponse(r.client_id, "reschedule-appointment",
                                            r.idempotency_key)
         ruleCheck == validateAgainstBusinessRules(r.start_time, r.end_time,
                                                   getDefaultBusinessRules(TORONTO))
     IN  IF prev # NoResp THEN Respond(p, prev, Call("idem.get", fails))
         ELSE IF ~ruleCheck.ok THEN Respond(p, Err(400, ruleCheck.error), Call("idem.get", fails))
         ELSE Goto(p, "r_load", Call("idem.get", fails)) /\ UNCHANGED resp
  /\ UNCHANGED <<appts, events, nextEvent, idem, req, loc, nreq>>

RescheduleLoad(p, fails) ==
  /\ pc[p] = "r_load"
  /\ LoadAppointment(p, fails, "r_overlap")
  /\ UNCHANGED <<appts, events, nextEvent, idem, req, nreq>>

RescheduleOverlap(p, fails) ==
  /\ pc[p] = "r_overlap"
  /\ LET r == req[p] IN
       IF fails THEN Respond(p, Err(500, UP), Call("appts.overlap", fails))
       ELSE IF hasOverlapInSupabase(r.client_id, r.start_time, r.end_time, loc[p].old_id)
         THEN Respond(p, Err(409, "New time slot already booked"), Call("appts.overlap", fails))
       ELSE Goto(p, "r_cred", Call("appts.overlap", fails)) /\ UNCHANGED resp
  /\ UNCHANGED <<appts, events, nextEvent, idem, req, loc, nreq>>

RescheduleCred(p, fails) ==
  /\ pc[p] = "r_cred"
  /\ IF fails THEN Respond(p, Err(500, UP), Call("cred.get", fails))
     ELSE Goto(p, "r_freebusy", Call("cred.get", fails)) /\ UNCHANGED resp
  /\ UNCHANGED <<appts, events, nextEvent, idem, req, loc, nreq>>

\* mutant: a busy calendar does not stop the reschedule
RescheduleFreeBusyNoReturn(p, fails) ==
  /\ pc[p] = "r_freebusy"
  /\ IF fails THEN Respond(p, Err(500, UP), Call("cal.freebusy", fails))
     ELSE /\ Goto(p, IF loc[p].old_event_id # 0 THEN "r_delete" ELSE "r_evinsert",
                  Call("cal.freebusy", fails))
          /\ UNCHANGED resp
  /\ UNCHANGED <<appts, events, nextEvent, idem, req, loc, nreq>>

RescheduleFreeBusy(p, fails) ==
  /\ pc[p] = "r_freebusy"
  /\ LET r == req[p] IN
       IF fails THEN Respond(p, Err(500, UP), Call("cal.freebusy", fails))
       ELSE IF ~isFreeInGoogleCalendar(r.client_id, r.start_time, r.end_time)
         THEN Respond(p, Err(409, "New time slot is busy in calendar"), Call("cal.freebusy", fails))
       ELSE /\ Goto(p, IF loc[p].old_event_id # 0 THEN "r_delete" ELSE "r_evinsert",
                    Call("cal.freebusy", fails))
            /\ UNCHANGED resp
  /\ UNCHANGED <<appts, events, nextEvent, idem, req, loc, nreq>>

\* mutant: reschedule leaves the old event in the calendar
RescheduleDeleteKeepsEvent(p, fails) ==
  /\ pc[p] = "r_delete"
  /\ IF fails THEN Respond(p, Err(500, UP), Call("cal.delete", TRUE))
     ELSE Goto(p, "r_evinsert", Call("cal.delete", FALSE)) /\ UNCHANGED resp
  /\ UNCHANGED <<appts, events, nextEvent, idem, req, loc, nreq>>

RescheduleDelete(p, fails) ==
  /\ pc[p] = "r_delete"
  /\ DeleteEvent(p, fails, "r_evinsert")
  /\ UNCHANGED <<appts, nextEvent, idem, req, loc, nreq>>

RescheduleEventInsert(p, fails) ==
  /\ pc[p] = "r_evinsert"
  /\ LET r == req[p] IN
       IF fails
         THEN /\ Respond(p, Err(500, UP), Call("cal.insert", fails))
              /\ UNCHANGED <<events, nextEvent, loc>>
         ELSE /\ events' = events \cup {[id |-> nextEvent, cal |-> r.client_id,
                                         s |-> r.start_time, e |-> r.end_time]}
              /\ nextEvent' = nextEvent + 1
              /\ loc' = [loc EXCEPT ![p].google_event_id = nextEvent]
              /\ Goto(p, "r_update", Call("cal.insert", fails)) /\ UNCHANGED resp
  /\ UNCHANGED <<appts, idem, req, nreq>>

RescheduleUpdate(p, fails) ==
  /\ pc[p] = "r_update"
  /\ UpdateStatus(p, fails, "rescheduled", "r_rowinsert")
  /\ UNCHANGED <<events, nextEvent, idem, req, loc, nreq>>

RescheduleRowInsert(p, fails) ==
  /\ pc[p] = "r_rowinsert"
  /\ LET r == req[p] IN
       IF fails
         THEN /\ Respond(p, Err(500, UP), Call("appts.insert", fails))
              /\ UNCHANGED <<appts, loc>>
         ELSE /\ appts' = Append(appts, NewRow(r.client_id, loc[p].old_phone, r.start_time,
                                               r.end_time, loc[p].google_event_id,
                                               loc[p].old_id))
              /\ loc' = [loc EXCEPT ![p].row_id = Len(appts) + 1]
              /\ Goto(p, "r_save", Call("appts.insert", fails)) /\ UNCHANGED resp
  /\ UNCHANGED <<events, nextEvent, idem, req, nreq>>

RescheduleSave(p, fails) ==
  /\ pc[p] = "r_save"
  /\ LET r == req[p]
         response == [status |-> 200, ok |-> TRUE, old_appointment_id |-> loc[p].old_id,
                      new_appointment_id |-> loc[p].row_id,
                      new_google_event_id |-> loc[p].google_event_id]
     IN  /\ idem' = IF fails THEN idem
                    ELSE saveIdempotentResponse(r.client_id, "reschedule-appointment",
                                                r.idempotency_key, response)
         /\ Respond(p, response, Call("idem.save", fails))
  /\ UNCHANGED <<appts, events, nextEvent, req, loc, nreq>>

Reschedule(p, fails) ==
  \/ RescheduleIdem(p, fails)
  \/ RescheduleLoad(p, fails)
  \/ RescheduleOverlap(p, fails)
  \/ RescheduleCred(p, fails)
  \/ RescheduleFreeBusy(p, fails)
  \/ RescheduleDelete(p, fails)
  \/ RescheduleEventInsert(p, fails)
  \/ RescheduleUpdate(p, fails)
  \/ RescheduleRowInsert(p, fails)
  \/ RescheduleSave(p, fails)

\* ============================================== POST /tools/check-availability
Days      == {1, 3, 6}      \* request dates: a Monday, a Wednesday, a Saturday
NoDate    == 0
\* duration_minutes: two usual ones, zero, a negative one, one longer than the day
Durations == {30, 60, 0, 0 - 30, 600}

\* DateTime.toISO in a zone: wall-clock time and offset, as the string carries them
toISO(t, tz) == [wall |-> t + TzOffset(tz), offset |-> TzOffset(tz)]
\* DateTime.fromISO of a string with an offset: the instant
fromISO(iso) == iso.wall - iso.offset

\* events.list(timeMin, timeMax): events that end after timeMin and start before timeMax
listEvents(calendar_id, timeMin, timeMax) ==
  {ev \in events : ev.cal = calendar_id /\ ev.e > timeMin /\ ev.s < timeMax}

\* for (t = dayStart; t + dur <= dayEnd; t += step)
RECURSIVE SlotLoop(_, _, _, _, _)
SlotLoop(t, dur, dayEnd, rules, busy) ==
  IF t + dur > dayEnd THEN <<>>
  ELSE LET startLocal == toISO(t, rules.timezone)
           endLocal   == toISO(t + dur, rules.timezone)
           ruleCheck  == validateAgainstBusinessRules(fromISO(startLocal), fromISO(endLocal), rules)
           overlaps   == \E b \in busy : t < b.e /\ t + dur > b.s
           rest       == SlotLoop(t + rules.step_minutes, dur, dayEnd, rules, busy)
       IN  IF ruleCheck.ok /\ ~overlaps
             THEN <<[start_time |-> startLocal, end_time |-> endLocal]>> \o rest
             ELSE rest

AvailResponse(date, timezone, slots) ==
  [status |-> 200, ok |-> TRUE, date |-> date, timezone |-> timezone, slots |-> slots]

AvailRequest(p, max) ==
  /\ Free(p, max)
  /\ \E d \in Days \cup {NoDate}, dur \in Durations :
       /\ req' = [req EXCEPT ![p] = [op |-> "check-availability", client_id |-> ClientA,
                    idempotency_key |-> NoKey, start_time |-> 0, end_time |-> 0,
                    customer_phone |-> "", appointment_id |-> 0,
                    date |-> d, duration_minutes |-> dur]]
       /\ IF d = NoDate
            THEN /\ pc' = [pc EXCEPT ![p] = "done"]
                 /\ resp' = [resp EXCEPT ![p] = Err(400, "Missing date YYYY-MM-DD")]
            ELSE /\ pc' = [pc EXCEPT ![p] = "a_cred"]
                 /\ resp' = [resp EXCEPT ![p] = NoResp]
  /\ nreq' = nreq + 1
  /\ loc' = [loc EXCEPT ![p] = NoLoc]
  /\ trace' = [trace EXCEPT ![p] = <<>>]
  /\ UNCHANGED <<appts, events, nextEvent, idem>>

\* mutant: check-availability has no weekend short cut
AvailCredNoWeekend(p, fails) ==
  /\ pc[p] = "a_cred"
  /\ IF fails THEN Respond(p, Err(500, UP), Call("cred.get", fails))
     ELSE Goto(p, "a_list", Call("cred.get", fails)) /\ UNCHANGED resp
  /\ UNCHANGED <<appts, events, nextEvent, idem, req, loc, nreq>>

\* getClientCalendar, then the weekend short cut
AvailCred(p, fails) ==
  /\ pc[p] = "a_cred"
  /\ LET rules == getDefaultBusinessRules(TORONTO)
         dayStart == At(rules.timezone, req[p].date, rules.start_hour, 0)
     IN  IF fails THEN Respond(p, Err(500, UP), Call("cred.get", fails))
         ELSE IF ~rules.allow_weekends /\ Weekday(dayStart, rules.timezone) \in {6, 7}
           THEN Respond(p, AvailResponse(req[p].date, rules.timezone, <<>>), Call("cred.get", fails))
         ELSE Goto(p, "a_list", Call("cred.get", fails)) /\ UNCHANGED resp
  /\ UNCHANGED <<appts, events, nextEvent, idem, req, loc, nreq>>

\* mutant: the slot loop runs with rules that have no lunch break
AvailListNoLunch(p, fails) ==
  /\ pc[p] = "a_list"
  /\ LET rules == [getDefaultBusinessRules(TORONTO) EXCEPT !.lunch_end_hour = 12]
         dayStart == At(rules.timezone, req[p].date, rules.start_hour, 0)
         dayEnd   == At(rules.timezone, req[p].date, rules.end_hour, 0)
         busy     == listEvents(req[p].client_id, dayStart, dayEnd)
         slots    == SlotLoop(dayStart, req[p].duration_minutes, dayEnd, rules, busy)
     IN  IF fails THEN Respond(p, Err(500, UP), Call("cal.list", fails))
         ELSE Respond(p, AvailResponse(req[p].date, rules.timezone, slots), Call("cal.list", fails))
  /\ UNCHANGED <<appts, events, nextEvent, idem, req, loc, nreq>>

\* mutant: the slot loop does not look at the listed events
AvailListIgnoresCalendar(p, fails) ==
  /\ pc[p] = "a_list"
  /\ LET rules == getDefaultBusinessRules(TORONTO)
         dayStart == At(rules.timezone, req[p].date, rules.start_hour, 0)
         dayEnd   == At(rules.timezone, req[p].date, rules.end_hour, 0)
         slots    == SlotLoop(dayStart, req[p].duration_minutes, dayEnd, rules, {})
     IN  IF fails THEN Respond(p, Err(500, UP), Call("cal.list", fails))
         ELSE Respond(p, AvailResponse(req[p].date, rules.timezone, slots), Call("cal.list", fails))
  /\ UNCHANGED <<appts, events, nextEvent, idem, req, loc, nreq>>

\* events.list over the business day, then the slot loop
\* mutant: the loop starts five minutes after day-start
AvailListLateStart(p, fails) ==
  /\ pc[p] = "a_list"
  /\ LET rules == getDefaultBusinessRules(TORONTO)
         dayStart == At(rules.timezone, req[p].date, rules.start_hour, 0)
         dayEnd   == At(rules.timezone, req[p].date, rules.end_hour, 0)
         busy     == listEvents(req[p].client_id, dayStart, dayEnd)
         slots    == SlotLoop(dayStart + 5, req[p].duration_minutes, dayEnd, rules, busy)
     IN  IF fails THEN Respond(p, Err(500, UP), Call("cal.list", fails))
         ELSE Respond(p, AvailResponse(req[p].date, rules.timezone, slots), Call("cal.list", fails))
  /\ UNCHANGED <<appts, events, nextEvent, idem, req, loc, nreq>>

AvailList(p, fails) ==
  /\ pc[p] = "a_list"
  /\ LET rules == getDefaultBusinessRules(TORONTO)
         dayStart == At(rules.timezone, req[p].date, rules.start_hour, 0)
         dayEnd   == At(rules.timezone, req[p].date, rules.end_hour, 0)
         busy     == listEvents(req[p].client_id, dayStart, dayEnd)
         slots    == SlotLoop(dayStart, req[p].duration_minutes, dayEnd, rules, busy)
     IN  IF fails THEN Respond(p, Err(500, UP), Call("cal.list", fails))
         ELSE Respond(p, AvailResponse(req[p].date, rules.timezone, slots), Call("cal.list", fails))
  /\ UNCHANGED <<appts, events, nextEvent, idem, req, loc, nreq>>

Avail(p, fails) == AvailCred(p, fails) \/ AvailList(p, fails)

\* ------------------------------------------------------- specifications
\* requests interleave at their awaits; any store or calendar call may fail
Next ==
  \E p \in Procs :
    \/ BookRequest(p, MaxReq)
    \/ CancelRequest(p, MaxReq)
    \/ RescheduleRequest(p, MaxReq)
    \/ \E fails \in BOOLEAN : Book(p, fails) \/ Cancel(p, fails) \/ Reschedule(p, fails)

Spec == Init /\ [][Next]_vars

\* requests interleave at their awaits; every store and calendar call succeeds
NextOk ==
  \E p \in Procs :
    \/ BookRequest(p, MaxReq)
    \/ CancelRequest(p, MaxReq)
    \/ RescheduleRequest(p, MaxReq)
    \/ Book(p, FALSE) \/ Cancel(p, FALSE) \/ Reschedule(p, FALSE)

SpecOk == Init /\ [][NextOk]_vars

\* no handler is running
Quiet == \A q \in Procs : pc[q] \in {"idle", "done"}

\* requests are handled one at a time; any store or calendar call may fail
NextSeq ==
  \E p \in Procs :
    \/ Quiet /\ BookRequest(p, MaxReq)
    \/ Quiet /\ CancelRequest(p, MaxReq)
    \/ Quiet /\ RescheduleRequest(p, MaxReq)
    \/ \E fails \in BOOLEAN : Book(p, fails) \/ Cancel(p, fails) \/ Reschedule(p, fails)

SpecSeq == Init /\ [][NextSeq]_vars

\* SpecSeq from the stores in which every booked row has its event: ClientA
\* has nothing or has booked IvA
InitSound ==
  /\ Init
  /\ \A i \in 1..Len(appts) : \E ev \in events : ev.id = appts[i].google_event_id

SpecSound == InitSound /\ [][NextSeq]_vars

\* the caller of a book that was answered 500 sends the same request again
\* (same body, same idempotency_key); nothing else has arrived in between
RetryRequest(p) ==
  /\ p = 2 /\ pc[p] = "idle"
  /\ pc[1] = "done" /\ req[1].op = "book-appointment" /\ resp[1].status = 500
  /\ Arrive(p, req[1], "b_idem")

\* one book and its retry: the calls of the first attempt may fail, those of
\* the retry succeed
NextRetry ==
  \/ nreq = 0 /\ BookRequest(1, MaxReq)
  \/ RetryRequest(2)
  \/ \E fails \in BOOLEAN : Book(1, fails)
  \/ Book(2, FALSE)

SpecRetry == Init /\ [][NextRetry]_vars

\* after a cancel or a reschedule of appointment X was answered ok, the same
\* client books the interval X had, with a key that the ledger does not hold
BookFormerRequest(p) ==
  /\ p = 2 /\ pc[p] = "idle"
  /\ pc[1] = "done" /\ req[1].op \in {"cancel-appointment", "reschedule-appointment"}
  /\ resp[1].status = 200 /\ loc[1].old_id # 0
  /\ \E k \in Keys :
       /\ getIdempotentResponse(req[1].client_id, "book-appointment", k) = NoResp
       /\ Arrive(p, [op |-> "book-appointment", client_id |-> req[1].client_id,
                     idempotency_key |-> k,
                     start_time |-> appts[loc[1].old_id].start_time,
                     end_time |-> appts[loc[1].old_id].end_time,
                     customer_phone |-> "p1", appointment_id |-> 0], "b_idem")

\* one cancel or reschedule, whose calls may fail, then the book of the
\* former interval, whose calls succeed
NextRelease ==
  \/ nreq = 0 /\ CancelRequest(1, MaxReq)
  \/ nreq = 0 /\ RescheduleRequest(1, MaxReq)
  \/ BookFormerRequest(2)
  \/ \E fails \in BOOLEAN : Cancel(1, fails) \/ Reschedule(1, fails)
  \/ Book(2, FALSE)

SpecRelease == InitSound /\ [][NextRelease]_vars

\* requests are handled one at a time and every store and calendar call succeeds
NextSeqOk ==
  \E p \in Procs :
    \/ Quiet /\ BookRequest(p, MaxSeqReq)
    \/ Quiet /\ CancelRequest(p, MaxSeqReq)
    \/ Quiet /\ RescheduleRequest(p, MaxSeqReq)
    \/ Book(p, FALSE) \/ Cancel(p, FALSE) \/ Reschedule(p, FALSE)

SpecSeqOk == Init /\ [][NextSeqOk]_vars

\* check-availability next to a reschedule in flight.  ClientA has nothing or
\* has booked IvA (row 2, event 2); its calendar may hold the Monday event made
\* outside this system and a Wednesday event 10:00-10:30 local.  Calendar calls
\* of check-availability may fail; the calls of reschedule succeed.
WedEvent == [id |-> 4, cal |-> ClientA, s |-> At(TORONTO, 3, 10, 0), e |-> At(TORONTO, 3, 10, 30)]

InitAvail ==
  /\ \E mine \in {"none", "booked"}, ext \in BOOLEAN, wed \in BOOLEAN :
       /\ appts = IF mine = "none" THEN <<OtherRow>> ELSE <<OtherRow, MyRow>>
       /\ events = {OtherEvent} \cup (IF mine = "booked" THEN {MyEvent} ELSE {})
                                \cup (IF ext THEN {ExtEvent} ELSE {})
                                \cup (IF wed THEN {WedEvent} ELSE {})
       /\ idem = {OtherIdem} \cup (IF mine = "none" THEN {} ELSE {MyIdem})
  /\ nextEvent = 5
  /\ pc = [p \in Procs |-> "idle"]
  /\ req = [p \in Procs |-> NoReq]
  /\ loc = [p \in Procs |-> NoLoc]
  /\ resp = [p \in Procs |-> NoResp]
  /\ trace = [p \in Procs |-> <<>>]
  /\ nreq = 0

NextAvail ==
  \E p \in Procs :
    \/ AvailRequest(p, MaxReq)
    \/ RescheduleRequest(p, MaxReq)
    \/ \E fails \in BOOLEAN : Avail(p, fails)
    \/ Reschedule(p, FALSE)

SpecAvail == InitAvail /\ [][NextAvail]_vars

\* check-availability alone, one request at a time; a handler that can take
\* its next step takes it: the event loop resumes every handler whose awaited
\* call has settled
NextSlots ==
  \E p \in Procs :
    \/ Quiet /\ AvailRequest(p, MaxSeqReq)
    \/ \E fails \in BOOLEAN : Avail(p, fails)

SpecSlots ==
  /\ InitAvail /\ [][NextSlots]_vars
  /\ \A p \in Procs : WF_vars(\E fails \in BOOLEAN : Avail(p, fails))

\* ------------------------------------------------ validateAgainstBusinessRules
\* One call of the rule check on its own, with any timestamps of the grid
\* below (or an unparsable one) and any rules; the handlers above call it with
\* the default rules only.
ProbeTimes ==
  {At(TORONTO, d, hm[1], hm[2]) :
     d \in {1, 5, 6, 7},
     hm \in {<<8, 30>>, <<9, 0>>, <<12, 0>>, <<13, 0>>, <<17, 15>>, <<21, 0>>}}
    \cup {InvalidISO}

RuleSets ==
  {[timezone |-> tz, allow_weekends |-> w, start_hour |-> h[1], end_hour |-> h[2],
    lunch_start_hour |-> l[1], lunch_end_hour |-> l[2], step_minutes |-> 15] :
     tz \in {TORONTO, "UTC"}, w \in BOOLEAN, h \in {<<9, 17>>, <<0, 23>>},
     l \in {<<12, 13>>, <<Null, Null>>}}

ValidateCall(p, max) ==
  /\ Free(p, max)
  /\ \A q \in Procs : req[q].op # "validate"
  /\ \E st \in ProbeTimes, en \in ProbeTimes, rules \in RuleSets :
       LET ruleCheck == validateAgainstBusinessRules(st, en, rules) IN
       /\ req' = [req EXCEPT ![p] = [op |-> "validate", client_id |-> "",
                    idempotency_key |-> NoKey, start_time |-> st, end_time |-> en,
                    customer_phone |-> "", appointment_id |-> 0, rules |-> rules]]
       /\ resp' = [resp EXCEPT ![p] = [status |-> IF ruleCheck.ok THEN 200 ELSE 400,
                                       ok |-> ruleCheck.ok, error |-> ruleCheck.error]]
  /\ pc' = [pc EXCEPT ![p] = "done"]
  /\ nreq' = nreq + 1
  /\ loc' = [loc EXCEPT ![p] = NoLoc]
  /\ trace' = [trace EXCEPT ![p] = <<>>]
  /\ UNCHANGED <<appts, events, nextEvent, idem>>

\* the store and calendar of InitAvail with ClientA's row and all three events
InitValidate ==
  /\ InitAvail
  /\ Len(appts) = 2 /\ ExtEvent \in events /\ WedEvent \in events

\* rule checks on their own and check-availability requests
NextValidate ==
  \E p \in Procs :
    \/ ValidateCall(p, MaxReq)
    \/ AvailRequest(p, MaxReq)
    \/ \E fails \in BOOLEAN : Avail(p, fails)

SpecValidate == InitValidate /\ [][NextValidate]_vars

\* ------------------------------------------------------ hasOverlapInSupabase
\* One call of the store conflict check on its own, for either client, with an
\* interval that lies before, after, inside, around or next to the booked
\* ones, and with or without an ignored appointment id; the store it reads
\* is the one that the requests handled before it have left.
ProbeIntervals ==
  {IvA, IvB, IvC, IvL,
   [s |-> At(TORONTO, 1, 9, 30),  e |-> At(TORONTO, 1, 10, 0)],
   [s |-> At(TORONTO, 1, 10, 30), e |-> At(TORONTO, 1, 11, 0)],
   [s |-> At(TORONTO, 1, 10, 10), e |-> At(TORONTO, 1, 10, 20)],
   [s |-> At(TORONTO, 1, 9, 45),  e |-> At(TORONTO, 1, 11, 45)]}

OverlapCall(p, max) ==
  /\ Free(p, max)
  /\ \E c \in {ClientA, ClientB}, iv \in ProbeIntervals, ignore \in 0..Len(appts) :
       /\ req' = [req EXCEPT ![p] = [op |-> "overlap", client_id |-> c,
                    idempotency_key |-> NoKey, start_time |-> iv.s, end_time |-> iv.e,
                    customer_phone |-> "", appointment_id |-> ignore]]
       /\ resp' = [resp EXCEPT ![p] = [status |-> 200,
                    overlap |-> hasOverlapInSupabase(c, iv.s, iv.e, ignore)]]
  /\ pc' = [pc EXCEPT ![p] = "done"]
  /\ nreq' = nreq + 1
  /\ loc' = [loc EXCEPT ![p] = NoLoc]
  /\ trace' = [trace EXCEPT ![p] = <<>>]
  /\ UNCHANGED <<appts, events, nextEvent, idem>>

\* requests one at a time, every call succeeding, and store checks in between
NextOverlap ==
  \E p \in Procs :
    \/ Quiet /\ OverlapCall(p, MaxReq)
    \/ Quiet /\ AvailRequest(p, MaxReq)
    \/ Quiet /\ BookRequest(p, MaxReq)
    \/ Quiet /\ CancelRequest(p, MaxReq)
    \/ Quiet /\ RescheduleRequest(p, MaxReq)
    \/ Avail(p, FALSE) \/ Book(p, FALSE) \/ Cancel(p, FALSE) \/ Reschedule(p, FALSE)

SpecOverlap == InitAvail /\ [][NextOverlap]_vars

\* ================================================ POST /tools/find-appointment
\* The caller names the customer by phone or by email; the rows of this model
\* are created without an email, so their customer_email is null.
Now        == At(TORONTO, 1, 10, 5)   \* DateTime.now() of a find request
Days30     == 30 * 1440
FindWho    == {[customer_phone |-> "p1", customer_email |-> ""],
               [customer_phone |-> "p2", customer_email |-> ""],
               [customer_phone |-> "",   customer_email |-> "e1"],
               [customer_phone |-> "",   customer_email |-> ""]}
FromDates  == {NoDate, 1, 2}
ToDates    == {NoDate, 1}
Limits     == {1, 5}

\* mutant: the query does not filter on status
FindRowsAnyStatus(r) ==
  LET from == IF r.from_date # NoDate THEN At(TORONTO, r.from_date, 0, 0) ELSE Now
      to   == IF r.to_date # NoDate THEN At(TORONTO, r.to_date + 1, 0, 0) - 1
              ELSE Now + Days30
  IN  {i \in 1..Len(appts) :
         /\ appts[i].client_id = r.client_id
         /\ appts[i].start_time >= from
         /\ appts[i].start_time <= to
         /\ (r.customer_phone # "" => appts[i].customer_phone = r.customer_phone)
         /\ r.customer_email = ""}

\* mutant: the query does not filter on client_id
FindRowsAnyTenant(r) ==
  LET from == IF r.from_date # NoDate THEN At(TORONTO, r.from_date, 0, 0) ELSE Now
      to   == IF r.to_date # NoDate THEN At(TORONTO, r.to_date + 1, 0, 0) - 1
              ELSE Now + Days30
  IN  {i \in 1..Len(appts) :
         /\ appts[i].status \in {"booked"}
         /\ appts[i].start_time >= from
         /\ appts[i].start_time <= to
         /\ (r.customer_phone # "" => appts[i].customer_phone = r.customer_phone)
         /\ r.customer_email = ""}

\* the rows the query selects
FindRows(r) ==
  LET from == IF r.from_date # NoDate THEN At(TORONTO, r.from_date, 0, 0) ELSE Now
      to   == IF r.to_date # NoDate THEN At(TORONTO, r.to_date + 1, 0, 0) - 1
              ELSE Now + Days30
  IN  {i \in 1..Len(appts) :
         /\ appts[i].client_id = r.client_id
         /\ appts[i].status \in {"booked"}
         /\ appts[i].start_time >= from
         /\ appts[i].start_time <= to
         /\ (r.customer_phone # "" => appts[i].customer_phone = r.customer_phone)
         /\ r.customer_email = ""}

\* order("start_time", ascending) and limit(n): any ordering of the selected
\* rows by start_time, cut after n rows
FindOrders(ids, n) ==
  LET k == IF Cardinality(ids) < n THEN Cardinality(ids) ELSE n IN
  {seq \in [1..k -> ids] :
     /\ \A a, b \in 1..k : a < b => /\ seq[a] # seq[b]
                                    /\ appts[seq[a]].start_time <= appts[seq[b]].start_time
     /\ \A i \in ids : (\A a \in 1..k : seq[a] # i)
                         => \A a \in 1..k : appts[seq[a]].start_time <= appts[i].start_time}

FindMatch(i) ==
  [id |-> i, start_time |-> appts[i].start_time, end_time |-> appts[i].end_time,
   status |-> appts[i].status, customer_phone |-> appts[i].customer_phone]

FindRequest(p, max) ==
  /\ Free(p, max)
  /\ \E who \in FindWho, from \in FromDates, to \in ToDates, lim \in Limits :
       /\ req' = [req EXCEPT ![p] = [op |-> "find-appointment", client_id |-> ClientA,
                    idempotency_key |-> NoKey, start_time |-> 0, end_time |-> 0,
                    customer_phone |-> who.customer_phone, appointment_id |-> 0,
                    customer_email |-> who.customer_email,
                    from_date |-> from, to_date |-> to, limit |-> lim]]
       /\ IF who.customer_phone = "" /\ who.customer_email = ""
            THEN /\ pc' = [pc EXCEPT ![p] = "done"]
                 /\ resp' = [resp EXCEPT ![p] = Err(400, "Need customer_phone or customer_email")]
            ELSE /\ pc' = [pc EXCEPT ![p] = "f_query"]
                 /\ resp' = [resp EXCEPT ![p] = NoResp]
  /\ nreq' = nreq + 1
  /\ loc' = [loc EXCEPT ![p] = NoLoc]
  /\ trace' = [trace EXCEPT ![p] = <<>>]
  /\ UNCHANGED <<appts, events, nextEvent, idem>>

FindQuery(p, fails) ==
  /\ pc[p] = "f_query"
  /\ IF fails THEN Respond(p, Err(500, UP), Call("appts.find", fails))
     ELSE \E seq \in FindOrders(FindRows(req[p]), req[p].limit) :
            Respond(p, [status |-> 200, ok |-> TRUE,
                        matches |-> [n \in DOMAIN seq |-> FindMatch(seq[n])]],
                    Call("appts.find", fails))
  /\ UNCHANGED <<appts, events, nextEvent, idem, req, loc, nreq>>

\* requests one at a time; the calls of book, cancel and reschedule succeed
NextFind ==
  \E p \in Procs :
    \/ Quiet /\ FindRequest(p, MaxSeqReq)
    \/ Quiet /\ BookRequest(p, MaxSeqReq)
    \/ Quiet /\ CancelRequest(p, MaxSeqReq)
    \/ Quiet /\ RescheduleRequest(p, MaxSeqReq)
    \/ \E fails \in BOOLEAN : FindQuery(p, fails)
    \/ Book(p, FALSE) \/ Cancel(p, FALSE) \/ Reschedule(p, FALSE)

SpecFind == Init /\ [][NextFind]_vars

\* The stores of Init with one more event in ClientA's calendar, made outside
\* this system over the lunch break (12:00-12:30 local); requests interleave
\* and calls may fail as in Spec.
LunchEvent == [id |-> 4, cal |-> ClientA, s |-> IvL.s, e |-> IvL.e]

InitBusyLunch ==
  /\ \E mine \in {"none", "booked", "stale"}, ext \in BOOLEAN :
       /\ appts = IF mine = "none" THEN <<OtherRow>> ELSE <<OtherRow, MyRow>>
       /\ events = {OtherEvent, LunchEvent} \cup (IF mine = "booked" THEN {MyEvent} ELSE {})
                                            \cup (IF ext THEN {ExtEvent} ELSE {})
       /\ idem = {OtherIdem} \cup (IF mine = "none" THEN {} ELSE {MyIdem})
  /\ nextEvent = 5
  /\ pc = [p \in Procs |-> "idle"]
  /\ req = [p \in Procs |-> NoReq]
  /\ loc = [p \in Procs |-> NoLoc]
  /\ resp = [p \in Procs |-> NoResp]
  /\ trace = [p \in Procs |-> <<>>]
  /\ nreq = 0

SpecBusyLunch == InitBusyLunch /\ [][Next]_vars

\* ------------------------------------------------------------------ toolAuth
\* Every tool route runs toolAuth first; the body may name a client_id.

\* getClientIdFromToolToken after its select; a store error reads as "not found"
getClientIdFromToolToken(token, fails) ==
  LET data == {t \in TokenRows : t.token = token} IN
  IF fails \/ data = {} THEN [status |-> 401, error |-> "Unauthorized (token not found)"]
  ELSE IF ~(CHOOSE t \in data : TRUE).is_active
    THEN [status |-> 401, error |-> "Unauthorized (token inactive)"]
  ELSE [status |-> 200, client_id |-> (CHOOSE t \in data : TRUE).client_id]

\* a tool request arrives; a missing token is refused before the select
ToolRequest(p, max) ==
  /\ Free(p, max)
  /\ \E token \in Tokens, body_client_id \in {"", ClientA, ClientB} :
       /\ req' = [req EXCEPT ![p] = [op |-> "tool", token |-> token,
                                     client_id |-> body_client_id]]
       /\ IF token = ""
            THEN /\ pc' = [pc EXCEPT ![p] = "done"]
                 /\ resp' = [resp EXCEPT ![p] = Err(401, "Missing token")]
            ELSE /\ pc' = [pc EXCEPT ![p] = "t_auth"]
                 /\ resp' = [resp EXCEPT ![p] = NoResp]
  /\ loc' = [loc EXCEPT ![p] = NoLoc]
  /\ trace' = [trace EXCEPT ![p] = <<>>]
  /\ UNCHANGED <<appts, events, nextEvent, idem, nreq>>

\* the body the handler reads once toolAuth has called next()
ToolBodies(client_id) ==
  {[op |-> "book-appointment", client_id |-> client_id, idempotency_key |-> k,
    start_time |-> iv.s, end_time |-> iv.e, customer_phone |-> ph, appointment_id |-> 0] :
     iv \in Intervals, k \in KeyInputs, ph \in Phones}
  \cup
  {[op |-> "cancel-appointment", client_id |-> client_id, idempotency_key |-> k,
    start_time |-> 0, end_time |-> 0, customer_phone |-> "", appointment_id |-> id] :
     id \in 1..Len(appts), k \in KeyInputs}
  \cup
  {[op |-> "reschedule-appointment", client_id |-> client_id, idempotency_key |-> k,
    start_time |-> iv.s, end_time |-> iv.e, customer_phone |-> "", appointment_id |-> id] :
     id \in 1..Len(appts), iv \in Intervals, k \in KeyInputs}

FirstLabel(op) ==
  IF op = "book-appointment" THEN "b_idem"
  ELSE IF op = "cancel-appointment" THEN "c_idem" ELSE "r_idem"

\* toolAuth, then enforceClientIdMatch and the handler's entry
ToolAuth(p, fails) ==
  /\ pc[p] = "t_auth"
  /\ LET auth == getClientIdFromToolToken(req[p].token, fails) IN
       IF auth.status # 200
         THEN /\ Respond(p, Err(auth.status, auth.error), Call("tokens.get", fails))
              /\ UNCHANGED <<appts, events, nextEvent, idem, req, loc, nreq>>
         ELSE IF req[p].client_id # "" /\ req[p].client_id # auth.client_id
           THEN /\ Respond(p, Err(403, "client_id does not match token"),
                           Call("tokens.get", fails))
                /\ UNCHANGED <<appts, events, nextEvent, idem, req, loc, nreq>>
           ELSE \E r \in ToolBodies(auth.client_id) : Arrive(p, r, FirstLabel(r.op))

\* requests one at a time behind toolAuth; the token select may fail, the
\* calls of the handlers succeed
NextAuth ==
  \E p \in Procs :
    \/ Quiet /\ ToolRequest(p, MaxReq)
    \/ \E fails \in BOOLEAN : ToolAuth(p, fails)
    \/ Book(p, FALSE) \/ Cancel(p, FALSE) \/ Reschedule(p, FALSE)

SpecAuth == Init /\ [][NextAuth]_vars

\* tool requests and find requests of ClientA's token one at a time, any of
\* which may name a row of ClientB; every call may fail
NextTenant ==
  \E p \in Procs :
    \/ Quiet /\ ToolRequest(p, MaxReq)
    \/ Quiet /\ FindRequest(p, MaxReq)
    \/ \E fails \in BOOLEAN :
         \/ ToolAuth(p, fails) \/ FindQuery(p, fails)
         \/ Book(p, fails) \/ Cancel(p, fails) \/ Reschedule(p, fails)

SpecTenant == Init /\ [][NextTenant]_vars

\* ------------------------------------------------------ POST /retell-webhook
\* The webhook URL carries ?token= and ?client_id=, the body an event and a
\* call id.  WEBHOOK_TOKEN is configured.
WEBHOOK_TOKEN == "wh"
WebhookTokens == {"wh", "bad", ""}
WebhookEvents == {"call_analyzed", "call_started"}
NoCall        == 0
CallIds       == {NoCall, 7}

Accepted == [status |-> 200, ok |-> TRUE, accepted |-> TRUE]
Skipped(event) == [status |-> 200, ok |-> TRUE, skipped |-> TRUE, event |-> event]

\* mutant: the handler does not look at the event
WebhookAnswerAnyEvent(token, client_id, event, call_id) ==
  IF token = "" \/ token # WEBHOOK_TOKEN THEN Err(401, "Unauthorized")
  ELSE IF client_id = "" THEN Err(400, "Missing client_id")
  ELSE IF call_id = NoCall THEN Err(400, "Missing call_id")
  ELSE Accepted

\* the synchronous part of the handler, up to the response
WebhookAnswer(token, client_id, event, call_id) ==
  IF token = "" \/ token # WEBHOOK_TOKEN THEN Err(401, "Unauthorized")
  ELSE IF client_id = "" THEN Err(400, "Missing client_id")
  ELSE IF event # "call_analyzed" THEN Skipped(event)
  ELSE IF call_id = NoCall THEN Err(400, "Missing call_id")
  ELSE Accepted

\* a webhook arrives and is answered; an accepted one leaves its detached
\* work (setImmediate) behind in the slot.  The catch logs the 401.
WebhookRequest(p, max) ==
  /\ Free(p, max)
  /\ \E token \in WebhookTokens, client_id \in {"", ClientA},
        event \in WebhookEvents, call_id \in CallIds :
       LET answer == WebhookAnswer(token, client_id, event, call_id) IN
       /\ req' = [req EXCEPT ![p] = [op |-> "retell-webhook", token |-> token,
                    client_id |-> client_id, event |-> event, call_id |-> call_id]]
       /\ resp' = [resp EXCEPT ![p] = answer]
       /\ pc' = [pc EXCEPT ![p] = IF answer = Accepted THEN "w_client" ELSE "done"]
       /\ trace' = [trace EXCEPT ![p] =
                      IF answer.status = 401 THEN <<Call("console.error", FALSE)>> ELSE <<>>]
  /\ loc' = [loc EXCEPT ![p] = NoLoc]
  /\ nreq' = nreq + 1
  /\ UNCHANGED <<appts, events, nextEvent, idem>>

\* catch (e) of the detached work: console.error, nothing else
WebhookAsyncError(p, call) ==
  /\ pc' = [pc EXCEPT ![p] = "done"]
  /\ trace' = [trace EXCEPT ![p] = @ \o <<Call(call, TRUE), Call("console.error", FALSE)>>]

\* select email,name from clients; cErr is thrown
WebhookClient(p, fails) ==
  /\ pc[p] = "w_client"
  /\ IF fails THEN WebhookAsyncError(p, "clients.get")
              ELSE Goto(p, "w_fetch", Call("clients.get", FALSE))
  /\ UNCHANGED <<appts, events, nextEvent, idem, req, loc, resp, nreq>>

\* fetchRetellCall: axios throws
WebhookFetch(p, fails) ==
  /\ pc[p] = "w_fetch"
  /\ IF fails THEN WebhookAsyncError(p, "retell.get")
              ELSE Goto(p, "w_insert", Call("retell.get", FALSE))
  /\ UNCHANGED <<appts, events, nextEvent, idem, req, loc, resp, nreq>>

\* insert into calls: the { error } it resolves to is not read
WebhookInsert(p, fails) ==
  /\ pc[p] = "w_insert"
  /\ Goto(p, "w_send", Call("calls.insert", fails))
  /\ UNCHANGED <<appts, events, nextEvent, idem, req, loc, resp, nreq>>

\* resend.emails.send: sendResult.error is thrown
WebhookSend(p, fails) ==
  /\ pc[p] = "w_send"
  /\ IF fails THEN WebhookAsyncError(p, "email.send")
              ELSE /\ pc' = [pc EXCEPT ![p] = "done"]
                   /\ trace' = [trace EXCEPT ![p] = Append(@, Call("email.send", FALSE))]
  /\ UNCHANGED <<appts, events, nextEvent, idem, req, loc, resp, nreq>>

Webhook(p, fails) ==
  \/ WebhookClient(p, fails)
  \/ WebhookFetch(p, fails)
  \/ WebhookInsert(p, fails)
  \/ WebhookSend(p, fails)

\* webhooks next to bookings: requests arrive while detached work is pending;
\* every call of the detached work may fail, the calls of book succeed
NextWebhook ==
  \E p \in Procs :
    \/ WebhookRequest(p, MaxSeqReq)
    \/ BookRequest(p, MaxSeqReq)
    \/ \E fails \in BOOLEAN : Webhook(p, fails)
    \/ Book(p, FALSE)

SpecWebhook == Init /\ [][NextWebhook]_vars

\* ======================================================================
\* Properties
\* ======================================================================
IsBook(p)       == req[p].op = "book-appointment"
IsCancel(p)     == req[p].op = "cancel-appointment"
IsReschedule(p) == req[p].op = "reschedule-appointment"
Done(p)         == pc[p] = "done"
\* the handler of slot p ran to its end and answered ok, not replaying the ledger
Executed(p)     == Done(p) /\ resp[p].status = 200 /\ loc[p].row_id # 0

BookedOverlap(i, j) ==
  /\ appts[i].client_id = appts[j].client_id
  /\ appts[i].status = "booked" /\ appts[j].status = "booked"
  /\ appts[i].start_time < appts[j].end_time
  /\ appts[i].end_time > appts[j].start_time

\* C1 (as claimed): a book request that arrives when the ledger already holds a
\* response for its (client, "book-appointment", key) answers with exactly that
\* stored response and creates no appointment row and no calendar event.
C1_IdempotentReplay ==
  \A p \in Procs :
    (Done(p) /\ IsBook(p) /\ loc[p].prior # NoResp)
      => /\ resp[p] = loc[p].prior
         /\ loc[p].row_id = 0
         /\ loc[p].google_event_id = 0

\* C2: with requests handled one at a time and every call succeeding, no two
\* booked appointments of one client ever overlap (half-open intervals).
C2_NoDoubleBooking ==
  \A i, j \in 1..Len(appts) : i # j => ~BookedOverlap(i, j)

\* two booked rows of ClientA side by side, and a request refused as a conflict
C2_Witness ==
  /\ \E i, j \in 1..Len(appts) :
       /\ i # j /\ appts[i].client_id = ClientA /\ appts[j].client_id = ClientA
       /\ appts[i].status = "booked" /\ appts[j].status = "booked"
  /\ \E p \in Procs : Done(p) /\ resp[p].status = 409

\* C3: nothing stands between the two checks of book and its insert: once a
\* request has passed both checks and created its event, the step that inserts
\* the row inserts it whatever the table holds by then (no lock, no uniqueness
\* constraint), when the store call itself succeeds.
C3_InsertNeverRefuses ==
  [][\A p \in Procs :
       (pc[p] = "b_rowinsert" /\ pc'[p] # "b_rowinsert")
         => /\ pc'[p] = "b_save"
            /\ Len(appts') = Len(appts) + 1
            /\ appts'[Len(appts')].start_time = req[p].start_time
            /\ appts'[Len(appts')].status = "booked"]_vars

\* two interleaved book requests with different keys have both answered ok and
\* their two rows are booked, belong to one client and overlap
C3_DoubleBooked ==
  \E p, q \in Procs :
    /\ p # q /\ IsBook(p) /\ IsBook(q) /\ Executed(p) /\ Executed(q)
    /\ req[p].idempotency_key # req[q].idempotency_key
    /\ "cal.freebusy" \in Calls(p) /\ "cal.freebusy" \in Calls(q)
    /\ loc[p].row_id # loc[q].row_id
    /\ BookedOverlap(loc[p].row_id, loc[q].row_id)

\* C4 (as claimed): the side effects of book happen at most once per
\* (client, key), also when the retry arrives while the first request is still
\* in flight: no two requests with the same key have each created an event.
C4_AtMostOncePerKey ==
  \A p, q \in Procs :
    (p # q /\ IsBook(p) /\ IsBook(q)
       /\ req[p].client_id = req[q].client_id
       /\ req[p].idempotency_key = req[q].idempotency_key)
      => ~(loc[p].google_event_id # 0 /\ loc[q].google_event_id # 0)

\* C5: the store check precedes the calendar check, and a book request whose
\* interval overlaps a booked row of its client when the store query is
\* answered ends there, as a 409 conflict, without any free/busy query.
C5_StoreCheckFirst ==
  \A p \in Procs :
    (IsBook(p) /\ "cal.freebusy" \in Calls(p))
      => \E m, n \in 1..Len(trace[p]) :
           /\ m < n
           /\ trace[p][m] = Call("appts.overlap", FALSE)
           /\ trace[p][n].call = "cal.freebusy"

C5_ConflictEndsBook ==
  \A p \in Procs :
    (/\ pc[p] = "b_overlap" /\ pc'[p] # "b_overlap"
     /\ hasOverlapInSupabase(req[p].client_id, req[p].start_time, req[p].end_time, 0))
      => /\ pc'[p] = "done"
         /\ "cal.freebusy" \notin Calls(p)'
         /\ ("appts.overlap" \notin FailedCalls(p)'
               => resp'[p] = Err(409, "Time slot already booked"))

C5_StoreConflictBeforeCalendar ==
  [](C5_StoreCheckFirst) /\ [][C5_ConflictEndsBook]_vars

C5_Witness ==
  \E p \in Procs :
    /\ Done(p) /\ IsBook(p) /\ resp[p] = Err(409, "Time slot already booked")
    /\ "cal.freebusy" \notin Calls(p)

\* C6: a book request that ran to its end and answered ok created its calendar
\* event before it inserted its row; the row was inserted as booked, with the
\* requested interval and the id of that event; it is the only row carrying
\* that event id; the response names that row and that event.
C6_RowAsInserted ==
  \A p \in Procs :
    (pc[p] = "b_rowinsert" /\ pc'[p] = "b_save")
      => /\ loc[p].google_event_id # 0
         /\ \E ev \in events : ev.id = loc[p].google_event_id /\ ev.cal = req[p].client_id
         /\ appts' = Append(appts, NewRow(req[p].client_id, req[p].customer_phone,
                                          req[p].start_time, req[p].end_time,
                                          loc[p].google_event_id, 0))

C6_AfterBook ==
  \A p \in Procs :
    (IsBook(p) /\ Executed(p))
      => /\ resp[p] = BookResponse(loc[p].row_id, loc[p].google_event_id,
                                   req[p].start_time, req[p].end_time)
         /\ loc[p].row_id \in 1..Len(appts)
         /\ appts[loc[p].row_id].client_id = req[p].client_id
         /\ appts[loc[p].row_id].start_time = req[p].start_time
         /\ appts[loc[p].row_id].end_time = req[p].end_time
         /\ {i \in 1..Len(appts) : appts[i].google_event_id = loc[p].google_event_id}
              = {loc[p].row_id}
         /\ \E m, n \in 1..Len(trace[p]) :
              /\ m < n
              /\ trace[p][m] = Call("cal.insert", FALSE)
              /\ trace[p][n] = Call("appts.insert", FALSE)

C6_SuccessfulBook ==
  [](C6_AfterBook) /\ [][C6_RowAsInserted]_vars

C6_Witness ==
  \E p \in Procs :
    /\ IsBook(p) /\ Executed(p)
    /\ appts[loc[p].row_id].status = "booked"
    /\ \E ev \in events : ev.id = loc[p].google_event_id

\* C7: when the event has been created and the insert of the row then fails,
\* book answers with a failure, the event stays in the calendar (nothing
\* deletes it), no row refers to it and no ledger row records it.
C7_InsertFailureStep ==
  \A p \in Procs :
    (pc[p] = "b_rowinsert" /\ pc'[p] = "done")
      => /\ resp'[p] = Err(500, UP)
         /\ UNCHANGED <<appts, events, idem>>

C7_AfterInsertFailure ==
  \A p \in Procs :
    (IsBook(p) /\ "appts.insert" \in FailedCalls(p))
      => /\ Done(p) /\ resp[p].status = 500
         /\ \E ev \in events : ev.id = loc[p].google_event_id
         /\ \A i \in 1..Len(appts) : appts[i].google_event_id # loc[p].google_event_id
         /\ \A r \in idem : r.tool_name = "book-appointment"
                              => r.response.google_event_id # loc[p].google_event_id

C7_OrphanedEvent ==
  [](C7_AfterInsertFailure) /\ [][C7_InsertFailureStep]_vars

C7_Witness ==
  \E p \in Procs :
    /\ IsBook(p) /\ Done(p) /\ "appts.insert" \in FailedCalls(p)
    /\ IdemRows(req[p].client_id, "book-appointment", req[p].idempotency_key) = {}

\* C8: when events.delete fails during cancel, cancel answers with a failure,
\* the step changes no row, no event and no ledger row, and the handler ends
\* there: it issues neither the status update nor the ledger write.
C8_DeleteFailureStep ==
  \A p \in Procs :
    (pc[p] = "c_delete" /\ pc'[p] # "c_delete" /\ "cal.delete" \in FailedCalls(p)')
      => /\ pc'[p] = "done"
         /\ resp'[p] = Err(500, UP)
         /\ UNCHANGED <<appts, events, idem>>

C8_AfterDeleteFailure ==
  \A p \in Procs :
    (IsCancel(p) /\ "cal.delete" \in FailedCalls(p))
      => /\ Done(p) /\ resp[p].status = 500
         /\ "appts.update" \notin Calls(p)
         /\ "idem.save" \notin Calls(p)

C8_FailedDeleteKeepsBooked ==
  [](C8_AfterDeleteFailure) /\ [][C8_DeleteFailureStep]_vars

C8_Witness ==
  \E p \in Procs :
    /\ IsCancel(p) /\ Done(p) /\ "cal.delete" \in FailedCalls(p)
    /\ appts[loc[p].old_id].status = "booked"
    /\ \E ev \in events : ev.id = loc[p].old_event_id
    /\ IdemRows(req[p].client_id, "cancel-appointment", req[p].idempotency_key) = {}

\* C9 (as claimed): whenever cancel has run to its end and answered ok for an
\* appointment, the appointment's status is cancelled and its calendar event
\* does not exist.
C9_CancelledAfterSuccess ==
  \A p \in Procs :
    (IsCancel(p) /\ Done(p) /\ resp[p].status = 200 /\ loc[p].old_id # 0)
      => /\ appts[resp[p].cancelled_appointment_id].status = "cancelled"
         /\ \A ev \in events :
              ev.id # appts[resp[p].cancelled_appointment_id].google_event_id

\* C10 (as claimed): whenever reschedule has run to its end and answered ok
\* for appointment X, X's status is rescheduled, one booked row has previous_appointment_id = X,
\* X's event is gone and the new row's event exists; and a status rescheduled
\* never changes again.
C10_AfterReschedule ==
  \A p \in Procs :
    (IsReschedule(p) /\ Executed(p))
      => LET x == resp[p].old_appointment_id
             y == resp[p].new_appointment_id
         IN  /\ appts[x].status = "rescheduled"
             /\ {i \in 1..Len(appts) : /\ appts[i].previous_appointment_id = x
                                       /\ appts[i].status = "booked"} = {y}
             /\ \A ev \in events : ev.id # appts[x].google_event_id
             /\ \E ev \in events : ev.id = appts[y].google_event_id

C10_RescheduledStays ==
  \A i \in 1..Len(appts) :
    appts[i].status = "rescheduled" => appts'[i].status = "rescheduled"

C10_RescheduleInvariant ==
  [](C10_AfterReschedule) /\ [][C10_RescheduledStays]_vars

\* C11: reschedule deletes the old event only after the rule check, the store
\* check and the free/busy check of the new interval have all passed; a
\* reschedule that one of them rejects changes no row and no event and has
\* issued no delete, no event insert, no status update and no row insert.
C11_ChecksBeforeDelete ==
  \A p \in Procs :
    (IsReschedule(p) /\ Calls(p) \cap {"cal.delete", "cal.insert", "appts.update", "appts.insert"} # {})
      => /\ validateAgainstBusinessRules(req[p].start_time, req[p].end_time,
                                         getDefaultBusinessRules(TORONTO)).ok
         /\ \E m, n \in 1..Len(trace[p]) :
              /\ m < n
              /\ trace[p][m] = Call("appts.overlap", FALSE)
              /\ trace[p][n] = Call("cal.freebusy", FALSE)
              /\ \A k \in 1..Len(trace[p]) :
                   trace[p][k].call \in {"cal.delete", "cal.insert", "appts.update", "appts.insert"}
                     => n < k

C11_Rejected(p) ==
  /\ IsReschedule(p) /\ Done(p) /\ loc[p].prior = NoResp
  /\ resp[p].status \in {400, 409}

C11_RejectionStep ==
  \A p \in Procs :
    (pc[p] \in {"r_idem", "r_overlap", "r_freebusy"} /\ pc'[p] = "done")
      => UNCHANGED <<appts, events, nextEvent, idem>>

C11_PassStep ==
  \A p \in Procs :
    /\ (pc[p] = "r_overlap" /\ pc'[p] = "r_cred")
         => ~hasOverlapInSupabase(req[p].client_id, req[p].start_time, req[p].end_time,
                                  loc[p].old_id)
    /\ (pc[p] = "r_freebusy" /\ pc'[p] \in {"r_delete", "r_evinsert"})
         => isFreeInGoogleCalendar(req[p].client_id, req[p].start_time, req[p].end_time)

C11_RejectedIsUntouched ==
  \A p \in Procs :
    C11_Rejected(p)
      => Calls(p) \cap {"cal.delete", "cal.insert", "appts.update", "appts.insert", "idem.save"} = {}

C11_DeleteAfterChecks ==
  [](C11_ChecksBeforeDelete /\ C11_RejectedIsUntouched) /\ [][C11_RejectionStep /\ C11_PassStep]_vars

\* a reschedule refused by the calendar: the old row is booked, its event exists
C11_Witness ==
  \E p \in Procs :
    /\ IsReschedule(p) /\ Done(p)
    /\ resp[p] = Err(409, "New time slot is busy in calendar")
    /\ appts[loc[p].old_id].status = "booked"
    /\ \E ev \in events : ev.id = loc[p].old_event_id

\* C12 (as claimed): an appointment does not conflict with itself during
\* reschedule: a reschedule is refused as a conflict only when a booked row of
\* the client other than the rescheduled one, or a calendar event other than
\* the rescheduled appointment's own event, overlaps the new interval.
C12_ConflictStep ==
  \A p \in Procs :
    (/\ pc[p] \in {"r_overlap", "r_freebusy"} /\ pc'[p] = "done"
     /\ resp'[p].status = 409)
      => \/ \E i \in 1..Len(appts) :
              /\ i # loc[p].old_id
              /\ appts[i].client_id = req[p].client_id /\ appts[i].status = "booked"
              /\ Overlaps(appts[i].start_time, appts[i].end_time,
                          req[p].start_time, req[p].end_time)
         \/ \E ev \in events :
              /\ ev.cal = req[p].client_id /\ ev.id # loc[p].old_event_id
              /\ Overlaps(ev.s, ev.e, req[p].start_time, req[p].end_time)

C12_NoSelfConflict == [][C12_ConflictStep]_vars

\* C13: cancelled and rescheduled are terminal: a row whose status is cancelled
\* or rescheduled keeps that status in every step, a cancelled row is never the
\* previous_appointment_id of any row, and a row is the previous_appointment_id
\* of at most one row (the one that the reschedule which ended it created).
C13_Terminal(i) == appts[i].status \in {"cancelled", "rescheduled"}

C13_StatusStays ==
  \A i \in 1..Len(appts) : C13_Terminal(i) => appts'[i].status = appts[i].status

C13_Successors(i) == {j \in 1..Len(appts) : appts[j].previous_appointment_id = i}

C13_NoResurrection ==
  \A i \in 1..Len(appts) :
    /\ Cardinality(C13_Successors(i)) <= 1
    /\ appts[i].status = "cancelled" => C13_Successors(i) = {}

C13_TerminalStatuses == [](C13_NoResurrection) /\ [][C13_StatusStays]_vars

\* a cancel or reschedule aimed at a row that is already cancelled or
\* rescheduled has ended in a failure at its events.delete
C13_Witness ==
  \E p \in Procs :
    /\ Done(p) /\ loc[p].old_id # 0 /\ C13_Terminal(loc[p].old_id)
    /\ Calls(p) \cap {"appts.update", "appts.insert"} = {}
    /\ "appts.load" \in Calls(p) /\ "appts.load" \notin FailedCalls(p)
    /\ resp[p].status = 500 /\ "cal.delete" \in FailedCalls(p)

IsMutating(p) == IsBook(p) \/ IsCancel(p) \/ IsReschedule(p)

\* C14 (as claimed): a book, cancel or reschedule request without
\* idempotency_key is not rejected for the missing key; it executes.
C14_NoKeyExecutes ==
  \A p \in Procs :
    (IsMutating(p) /\ req[p].idempotency_key = NoKey /\ Done(p))
      => /\ resp[p] # Err(400, "Missing idempotency_key")
         /\ Calls(p) # {}

\* C14 (amended): the two ledger functions skip a missing key (the lookup
\* finds nothing, the save writes nothing), but a book, cancel or reschedule
\* request without idempotency_key is answered 400 "Missing idempotency_key"
\* at once: it issues no store or calendar call and changes nothing.
C14_LedgerSkipsNoKey ==
  \A c \in {ClientA, ClientB} :
    \A op \in {"book-appointment", "cancel-appointment", "reschedule-appointment"} :
      /\ getIdempotentResponse(c, op, NoKey) = NoResp
      /\ saveIdempotentResponse(c, op, NoKey, [status |-> 200, ok |-> TRUE]) = idem

C14_NoKeyAnswered ==
  \A p \in Procs :
    (IsMutating(p) /\ req[p].idempotency_key = NoKey)
      => /\ Done(p)
         /\ resp[p] = Err(400, "Missing idempotency_key")
         /\ Calls(p) = {}

C14_NoKeyStep ==
  \A p \in Procs :
    (req'[p] # req[p] /\ req'[p].idempotency_key = NoKey)
      => UNCHANGED <<appts, events, nextEvent, idem>>

C14_NoKeyRejected ==
  [](C14_LedgerSkipsNoKey /\ C14_NoKeyAnswered) /\ [][C14_NoKeyStep]_vars

C14_Witness ==
  \E p \in Procs :
    /\ IsMutating(p) /\ req[p].idempotency_key = NoKey
    /\ Done(p) /\ resp[p].status = 400

\* C15 (as claimed): a ledger row is never updated or deleted: a response
\* stored for (client, tool, key) is the stored response for that triple in
\* every later state.
C15_RecordKept ==
  \A r \in idem :
    getIdempotentResponse(r.client_id, r.tool_name, r.idempotency_key)' = r.response

C15_LedgerImmutable == [][C15_RecordKept]_vars

\* C16: a ledger row is written only by a handler that ran to its end and
\* answers ok, and it holds exactly that answer; a request that is rejected
\* (validation, conflict, upstream failure) issues no ledger write and its
\* last step leaves the ledger as it was, so the key stays free for a retry.
C16_WriteStep ==
  idem' # idem
    => \E p \in Procs :
         /\ pc[p] \in {"b_save", "c_save", "r_save"} /\ pc'[p] = "done"
         /\ resp'[p].status = 200
         /\ idem' = saveIdempotentResponse(req[p].client_id, req[p].op,
                                           req[p].idempotency_key, resp'[p])

C16_RejectedWritesNothing ==
  \A p \in Procs :
    (IsMutating(p) /\ Done(p) /\ resp[p].status # 200 /\ loc[p].prior = NoResp)
      => "idem.save" \notin Calls(p)

C17_SaveStep ==
  \A p \in Procs :
    (pc[p] \in {"b_save", "c_save", "r_save"} /\ pc'[p] = "done" /\ resp'[p].status = 200)
      => getIdempotentResponse(req[p].client_id, req[p].op, req[p].idempotency_key)'
           = resp'[p]

C17_RecordedBeforeReturn == [][C17_SaveStep]_vars

IsAvail(p) == req[p].op = "check-availability"
Slots(p)   == {resp[p].slots[n] : n \in 1..Len(resp[p].slots)}
Answered(p) == IsAvail(p) /\ Done(p) /\ resp[p].status = 200

\* C18 (as claimed): every slot that check-availability returns is free in
\* both sources when the list is generated: it overlaps no booked appointment
\* of the client in the store and no event in the client's calendar.
C18_SlotsFreeStep ==
  \A p \in Procs :
    (pc[p] = "a_list" /\ pc'[p] = "done" /\ resp'[p].status = 200)
      => \A n \in 1..Len(resp'[p].slots) :
           LET s == fromISO(resp'[p].slots[n].start_time)
               e == fromISO(resp'[p].slots[n].end_time)
           IN  /\ isFreeInGoogleCalendar(req[p].client_id, s, e)
               /\ ~hasOverlapInSupabase(req[p].client_id, s, e, 0)

C18_SlotsFreeInBothSources == [][C18_SlotsFreeStep]_vars

\* C19: slot generation and validation agree: every slot that
\* check-availability returned passes validateAgainstBusinessRules when the
\* returned start_time and end_time are parsed back and checked against the
\* same rules.
C19_SlotsValidate ==
  \A p \in Procs :
    Answered(p)
      => \A slot \in Slots(p) :
           validateAgainstBusinessRules(fromISO(slot.start_time), fromISO(slot.end_time),
                                        getDefaultBusinessRules(resp[p].timezone)).ok

\* a non-empty list of slots has been returned
C19_Witness ==
  \E p \in Procs : Answered(p) /\ Len(resp[p].slots) > 0

\* the scenario of C20: a Wednesday, 30 minutes, the calendar holding the
\* event 10:00-10:30 local
C20_Case(p) ==
  /\ Answered(p) /\ req[p].date = 3 /\ req[p].duration_minutes = 30
  /\ WedEvent \in events

\* a returned slot starts at hh:mm local on the requested day
C20_Starts(p, hh, mm) ==
  \E slot \in Slots(p) : slot.start_time.wall = (req[p].date - 1) * 1440 + hh * 60 + mm

C20_InHoursOutsideLunch(p) ==
  \A slot \in Slots(p) :
    LET day == (req[p].date - 1) * 1440 IN
    /\ slot.start_time.wall >= day + 9 * 60
    /\ slot.start_time.wall <= day + 16 * 60 + 30
    /\ ~Overlaps(slot.start_time.wall, slot.end_time.wall, day + 12 * 60, day + 13 * 60)

\* C20 (as claimed): in the scenario the 10:00 slot is absent, the 09:45 and
\* 10:30 slots are present, no slot starts before 09:00 or after 16:30 and no
\* slot overlaps 12:00-13:00.
C20_ScenarioAsClaimed ==
  \A p \in Procs :
    C20_Case(p)
      => /\ ~C20_Starts(p, 10, 0)
         /\ C20_Starts(p, 9, 45) /\ C20_Starts(p, 10, 30)
         /\ C20_InHoursOutsideLunch(p)

\* C20 (amended): in the scenario the slots starting 09:45, 10:00 and 10:15
\* are absent (each overlaps the event 10:00-10:30), the slots starting 09:30
\* and 10:30 are present, no slot starts before 09:00 or after 16:30 and no
\* slot overlaps 12:00-13:00.
C20_Scenario ==
  \A p \in Procs :
    C20_Case(p)
      => /\ ~C20_Starts(p, 9, 45) /\ ~C20_Starts(p, 10, 0) /\ ~C20_Starts(p, 10, 15)
         /\ C20_Starts(p, 9, 30) /\ C20_Starts(p, 10, 30)
         /\ C20_InHoursOutsideLunch(p)

C20_Witness ==
  \E p \in Procs : C20_Case(p) /\ C20_Starts(p, 10, 30) /\ ~C20_Starts(p, 9, 45)

IsValidate(p) == req[p].op = "validate" /\ Done(p)

\* C21: with weekends disallowed the rule check rejects every interval whose
\* start is a Saturday or Sunday in the rules' timezone, and
\* check-availability answers a Saturday or Sunday date with an empty list of
\* slots without listing the calendar's events.
C21_ValidateWeekend ==
  \A p \in Procs :
    (/\ IsValidate(p) /\ req[p].start_time # InvalidISO
     /\ ~req[p].rules.allow_weekends
     /\ ((req[p].start_time + TzOffset(req[p].rules.timezone)) \div 1440) % 7 \in {5, 6})
      => ~resp[p].ok

C21_AvailWeekend ==
  \A p \in Procs :
    (Answered(p) /\ req[p].date \in {6, 7})
      => resp[p].slots = <<>> /\ "cal.list" \notin Calls(p)

C21_WeekendsClosed == C21_ValidateWeekend /\ C21_AvailWeekend

\* both cases have happened: a weekend interval inside working hours refused,
\* and a Saturday answered with no slots
C21_Witness ==
  /\ \E p \in Procs : IsValidate(p) /\ resp[p].error = "Closed on weekends"
  /\ \E p \in Procs : Answered(p) /\ req[p].date = 6 /\ resp[p].slots = <<>>

\* C22: the rule check rejects every interval with valid timestamps and
\* end <= start, whatever the rules are.
C22_EndNotAfterStart ==
  \A p \in Procs :
    (/\ IsValidate(p)
     /\ req[p].start_time # InvalidISO /\ req[p].end_time # InvalidISO
     /\ req[p].end_time <= req[p].start_time)
      => ~resp[p].ok /\ resp[p].error = "end_time must be after start_time"

\* an interval running backwards on a weekday evening, with weekends allowed,
\* hours 0-23 and no lunch break, has been rejected
C22_Witness ==
  \E p \in Procs :
    /\ IsValidate(p) /\ ~resp[p].ok
    /\ req[p].start_time # InvalidISO /\ req[p].end_time # InvalidISO
    /\ req[p].end_time < req[p].start_time
    /\ req[p].rules.allow_weekends /\ req[p].rules.start_hour = 0
    /\ req[p].rules.lunch_start_hour = Null

\* the five checks of the rule check, each stated on its own for the call of
\* slot p (local time = instant + offset of the rules' timezone)
C23_Local(p, t) == t + TzOffset(req[p].rules.timezone)
C23_Invalid(p)  == req[p].start_time = InvalidISO \/ req[p].end_time = InvalidISO
C23_Backwards(p) == req[p].end_time <= req[p].start_time
C23_Weekend(p) ==
  ~req[p].rules.allow_weekends /\ (C23_Local(p, req[p].start_time) \div 1440) % 7 \in {5, 6}
C23_OutsideHours(p) ==
  \/ C23_Local(p, req[p].start_time) % 1440 < req[p].rules.start_hour * 60
  \/ C23_Local(p, req[p].end_time) % 1440 > req[p].rules.end_hour * 60
C23_Lunch(p) ==
  /\ req[p].rules.lunch_start_hour # Null
  /\ LET day == C23_Local(p, req[p].start_time) - (C23_Local(p, req[p].start_time) % 1440)
     IN  /\ C23_Local(p, req[p].start_time) < day + req[p].rules.lunch_end_hour * 60
         /\ C23_Local(p, req[p].end_time) > day + req[p].rules.lunch_start_hour * 60

\* C23: the rule check reports the reason of the first check that fails, in
\* the order invalid timestamps, end <= start, weekend, outside business
\* hours, lunch overlap; it accepts exactly when none fails.
C23_FirstFailingCheck ==
  \A p \in Procs :
    IsValidate(p) =>
      resp[p].error =
        IF C23_Invalid(p) THEN "Invalid start/end time"
        ELSE IF C23_Backwards(p) THEN "end_time must be after start_time"
        ELSE IF C23_Weekend(p) THEN "Closed on weekends"
        ELSE IF C23_OutsideHours(p) THEN "Outside business hours"
        ELSE IF C23_Lunch(p) THEN "Conflicts with lunch break"
        ELSE ""

\* an interval that is on a weekend, outside business hours and over the
\* lunch break has been rejected as a weekend
C23_Witness ==
  \E p \in Procs :
    /\ IsValidate(p) /\ ~C23_Invalid(p) /\ ~C23_Backwards(p)
    /\ C23_Weekend(p) /\ C23_OutsideHours(p) /\ C23_Lunch(p)
    /\ resp[p].error = "Closed on weekends"

IsOverlapCall(p) == req[p].op = "overlap" /\ Done(p)

\* C24: the overlap predicate is symmetric and does not count intervals that
\* only touch; the store check answers as that predicate says with its
\* arguments either way round, and never counts the ignored appointment; the
\* slot loop of check-availability keeps exactly the valid candidates that
\* overlap no listed event, a candidate that only touches an event included.
C24_Symmetric ==
  \A a, b \in ProbeIntervals :
    /\ Overlaps(a.s, a.e, b.s, b.e) = Overlaps(b.s, b.e, a.s, a.e)
    /\ a.e = b.s => ~Overlaps(a.s, a.e, b.s, b.e) /\ ~Overlaps(b.s, b.e, a.s, a.e)

C24_StoreCheck ==
  \A p \in Procs :
    IsOverlapCall(p)
      => resp[p].overlap =
           \E i \in 1..Len(appts) :
             /\ i # req[p].appointment_id
             /\ appts[i].client_id = req[p].client_id /\ appts[i].status = "booked"
             /\ Overlaps(req[p].start_time, req[p].end_time,
                         appts[i].start_time, appts[i].end_time)

C24_SlotLoop ==
  \A p \in Procs :
    (Answered(p) /\ "cal.list" \in Calls(p))
      => LET dayStart == At(TORONTO, req[p].date, 9, 0)
             dur == req[p].duration_minutes
         IN  \A n \in 0..32 :
               LET t == dayStart + 15 * n IN
               ([start_time |-> toISO(t, TORONTO), end_time |-> toISO(t + dur, TORONTO)]
                  \in Slots(p))
                 = /\ t + dur <= At(TORONTO, req[p].date, 17, 0)
                   /\ validateAgainstBusinessRules(t, t + dur, getDefaultBusinessRules(TORONTO)).ok
                   /\ \A ev \in events :
                        ev.cal = req[p].client_id => ~Overlaps(ev.s, ev.e, t, t + dur)

C24_OverlapPredicate == C24_Symmetric /\ C24_StoreCheck /\ C24_SlotLoop

\* the store check was asked about a booked appointment's own interval with
\* that appointment ignored and answered no
C24_Witness ==
  \E p \in Procs :
    /\ IsOverlapCall(p) /\ ~resp[p].overlap
    /\ req[p].appointment_id \in 1..Len(appts)
    /\ LET x == appts[req[p].appointment_id]
       IN  /\ x.status = "booked" /\ x.client_id = req[p].client_id
           /\ x.start_time = req[p].start_time /\ x.end_time = req[p].end_time

\* C25: the store check answers true exactly when some appointment of the
\* asking client, with status booked and other than the ignored id, starts
\* before the queried end and ends after the queried start; rows of another
\* client and cancelled or rescheduled rows never make it true.
C25_Hits(p) ==
  {i \in 1..Len(appts) :
     /\ appts[i].start_time < req[p].end_time
     /\ appts[i].end_time > req[p].start_time
     /\ (req[p].appointment_id # 0 => i # req[p].appointment_id)}

C25_StoreCheckExact ==
  \A p \in Procs :
    IsOverlapCall(p)
      => /\ resp[p].overlap
              => \E i \in C25_Hits(p) :
                   appts[i].client_id = req[p].client_id /\ appts[i].status = "booked"
         /\ (\A i \in C25_Hits(p) :
               appts[i].client_id # req[p].client_id \/ appts[i].status # "booked")
              => ~resp[p].overlap

\* the store check answered no although a row of the other client and a
\* cancelled or rescheduled row of the asking client overlap the interval
C25_Witness ==
  \E p \in Procs :
    /\ IsOverlapCall(p) /\ ~resp[p].overlap
    /\ \E i \in C25_Hits(p) : appts[i].client_id # req[p].client_id
    /\ \E i \in C25_Hits(p) :
         appts[i].client_id = req[p].client_id /\ appts[i].status # "booked"

IsFind(p) == req[p].op = "find-appointment" /\ Done(p) /\ resp[p].status = 200

C27_RuleCheck(p) ==
  validateAgainstBusinessRules(req[p].start_time, req[p].end_time,
                               getDefaultBusinessRules(TORONTO))

C27_Conflicts ==
  {"Time slot already booked", "Time slot is busy in calendar",
   "New time slot already booked", "New time slot is busy in calendar"}

\* C27: in book and reschedule an interval that breaks a rule is answered 400
\* with that rule's reason, before any conflict check is issued, also when the
\* interval is occupied; an occupied interval that keeps the rules is answered
\* 409; the two answers are never mixed up.
C27_AfterAnswer ==
  \A p \in Procs :
    ((IsBook(p) \/ IsReschedule(p)) /\ Done(p) /\ req[p].idempotency_key # NoKey)
      => /\ resp[p].status = 409
              => C27_RuleCheck(p).ok /\ resp[p].error \in C27_Conflicts
         /\ (~C27_RuleCheck(p).ok /\ resp[p].status # 200)
              => /\ resp[p] = Err(400, C27_RuleCheck(p).error)
                 /\ Calls(p) = {"idem.get"}
         /\ (resp[p].status = 400 => ~C27_RuleCheck(p).ok)

C27_ConflictStep ==
  \A p \in Procs :
    /\ (/\ pc[p] \in {"b_overlap", "r_overlap"} /\ pc'[p] # pc[p]
        /\ "appts.overlap" \notin FailedCalls(p)'
        /\ hasOverlapInSupabase(req[p].client_id, req[p].start_time, req[p].end_time,
                                loc[p].old_id))
         => resp'[p].status = 409
    /\ (/\ pc[p] \in {"b_freebusy", "r_freebusy"} /\ pc'[p] # pc[p]
        /\ "cal.freebusy" \notin FailedCalls(p)'
        /\ ~isFreeInGoogleCalendar(req[p].client_id, req[p].start_time, req[p].end_time))
         => resp'[p].status = 409

C27_ValidationBeforeConflict == [](C27_AfterAnswer) /\ [][C27_ConflictStep]_vars

\* a book for the lunch break, which the calendar also holds an event for,
\* has been answered 400 with the lunch reason
C27_Witness ==
  \E p \in Procs :
    /\ IsBook(p) /\ Done(p)
    /\ resp[p] = Err(400, "Conflicts with lunch break")
    /\ ~isFreeInGoogleCalendar(req[p].client_id, req[p].start_time, req[p].end_time)


\* ------------------------------------------------------------------ C28
IsTool(p)   == req[p].op = "tool"
BadToken(t) == ~\E r \in TokenRows : r.token = t /\ r.is_active

\* a request stopped by toolAuth made no call but the token select
C28_Stopped ==
  \A p \in Procs :
    IsTool(p) /\ BadToken(req[p].token) =>
      /\ pc[p] \in {"t_auth", "done"}
      /\ req[p].token = "" => Done(p) /\ resp[p] = Err(401, "Missing token") /\ trace[p] = <<>>
      /\ Done(p) => resp[p].status = 401 /\ Calls(p) \subseteq {"tokens.get"}

\* a request with a bad token leaves toolAuth only with 401, and neither its
\* arrival nor its rejection touches rows, events or the ledger
C28_Step ==
  \A p \in Procs :
    /\ pc[p] = "t_auth" /\ BadToken(req[p].token) /\ pc'[p] # "t_auth" =>
         /\ pc'[p] = "done" /\ resp'[p].status = 401 /\ req'[p] = req[p]
         /\ UNCHANGED <<appts, events, nextEvent, idem>>
    /\ req'[p].op = "tool" /\ req'[p] # req[p] =>
         UNCHANGED <<appts, events, nextEvent, idem>>

\* C28: a tool request with a missing, unknown or inactive token is answered
\* 401 before the handler runs and creates, changes or deletes no appointment
\* row, no calendar event and no idempotency record.
C28_BadTokenRejected == [](C28_Stopped) /\ [][C28_Step]_vars

\* the retired token has been refused, next to a booking made with the
\* active token
C28_Witness ==
  /\ \E p \in Procs : Done(p) /\ IsTool(p) /\ resp[p] = Err(401, "Unauthorized (token inactive)")
  /\ Len(appts) > 2

\* ------------------------------------------------------------------ C29
IsWebhook(p)  == req[p].op = "retell-webhook"
DetachedCalls == {"clients.get", "retell.get", "calls.insert", "email.send"}

\* the detached calls are made only after 200 { accepted } has been sent
C29_ResponseFirst ==
  \A p \in Procs :
    IsWebhook(p) /\ (pc[p] \notin {"idle", "done"} \/ Calls(p) \cap DetachedCalls # {})
      => resp[p] = Accepted

\* a detached call that failed has been logged
C29_FailureLogged ==
  \A p \in Procs :
    IsWebhook(p) /\ FailedCalls(p) \cap DetachedCalls # {} => "console.error" \in Calls(p)

\* no detached call is made twice
C29_NoRetry ==
  \A p \in Procs :
    IsWebhook(p) =>
      \A i, j \in 1..Len(trace[p]) :
        trace[p][i].call = trace[p][j].call /\ trace[p][i].call \in DetachedCalls => i = j

\* a detached step keeps the response, the rows, the events and the ledger,
\* and ends or goes on in its own slot
C29_Step ==
  \A p \in Procs :
    pc[p] \in {"w_client", "w_fetch", "w_insert", "w_send"} /\ pc'[p] # pc[p] =>
      /\ resp'[p] = resp[p]
      /\ pc'[p] \in {"w_fetch", "w_insert", "w_send", "done"}
      /\ UNCHANGED <<appts, events, nextEvent, idem>>

\* the claim without the logging of failures; it holds
C29_DetachedKeepsResponse ==
  [](C29_ResponseFirst /\ C29_NoRetry) /\ [][C29_Step]_vars

\* C29 (as claimed): for an accepted call_analyzed webhook the 200 is sent
\* before the call fetch, the call-log insert and the email send begin; a
\* failure of any detached step is logged and nothing more: it is not retried,
\* does not change the response and does not stop the server.
C29_DetachedWork ==
  [](C29_ResponseFirst /\ C29_FailureLogged /\ C29_NoRetry) /\ [][C29_Step]_vars

\* ------------------------------------------------------------------ C30
\* a webhook with the right token and a client_id whose event is not
\* call_analyzed: 200 { skipped } at once, no call made
C30_NonTerminal ==
  \A p \in Procs :
    IsWebhook(p) /\ req[p].token = WEBHOOK_TOKEN /\ req[p].client_id # ""
                 /\ req[p].event # "call_analyzed" =>
      /\ Done(p)
      /\ resp[p] = Skipped(req[p].event)
      /\ trace[p] = <<>>

\* a webhook with a wrong or missing token: 401 at once, only the log line
C30_BadToken ==
  \A p \in Procs :
    IsWebhook(p) /\ req[p].token # WEBHOOK_TOKEN =>
      /\ Done(p)
      /\ resp[p] = Err(401, "Unauthorized")
      /\ Calls(p) = {"console.error"}

\* the arrival of a webhook changes no row, no event and no ledger record
C30_Arrival ==
  \A p \in Procs :
    req'[p] # req[p] /\ req'[p].op = "retell-webhook" =>
      UNCHANGED <<appts, events, nextEvent, idem>>

C31_Reads == {"idem.get", "appts.overlap", "cred.get", "cal.freebusy"}

\* a book answered 400 or 409 on its own run has made only reading calls
C31_Rejected ==
  \A p \in Procs :
    (IsBook(p) /\ Done(p) /\ resp[p].status \in {400, 409})
      => Calls(p) \subseteq C31_Reads

\* the steps of book up to and including the calendar check change nothing
C31_CheckStep ==
  \A p \in Procs :
    (pc[p] \in {"b_idem", "b_overlap", "b_cred", "b_freebusy"} /\ pc'[p] # pc[p])
      => UNCHANGED <<appts, events, nextEvent, idem>>

\* the arrival that is answered at once (missing key) changes nothing either
C31_ArrivalStep ==
  \A p \in Procs :
    (req'[p] # req[p] /\ req'[p].op = "book-appointment")
      => UNCHANGED <<appts, events, nextEvent, idem>>

\* C31: both conflict checks precede any mutation in book: a book rejected
\* for validation, for a store conflict or for a calendar conflict creates no
\* calendar event, inserts no row and writes no ledger record; store, calendar
\* and ledger are left as they were.
C31_ChecksBeforeMutation ==
  [](C31_Rejected) /\ [][C31_CheckStep /\ C31_ArrivalStep]_vars

\* one book refused by the calendar and one refused by the rule check
C31_Witness ==
  /\ \E p \in Procs : IsBook(p) /\ Done(p)
                      /\ resp[p] = Err(409, "Time slot is busy in calendar")
  /\ \E p \in Procs : IsBook(p) /\ Done(p) /\ resp[p] = Err(400, "Conflicts with lunch break")

\* ------------------------------------------------------------------ C32
C32_OfB(i) == appts[i].client_id = ClientB

\* no step changes, adds or removes a row, an event or a ledger record of B
C32_Untouched ==
  /\ \A i \in 1..Len(appts) : C32_OfB(i) => i <= Len(appts') /\ appts'[i] = appts[i]
  /\ \A i \in 1..Len(appts') : appts'[i].client_id = ClientB => i <= Len(appts)
  /\ {ev \in events' : ev.cal = ClientB} = {ev \in events : ev.cal = ClientB}
  /\ {row \in idem' : row.client_id = ClientB} = {row \in idem : row.client_id = ClientB}

\* no answer to cancel, reschedule or find names a row of B
C32_Returned ==
  \A p \in Procs :
    (Done(p) /\ resp[p].status = 200) =>
      /\ IsCancel(p) => ~C32_OfB(resp[p].cancelled_appointment_id)
      /\ IsReschedule(p) => /\ ~C32_OfB(resp[p].old_appointment_id)
                            /\ ~C32_OfB(resp[p].new_appointment_id)
      /\ req[p].op = "find-appointment" =>
           \A n \in DOMAIN resp[p].matches : ~C32_OfB(resp[p].matches[n].id)

\* a request whose body names another client than its token never reaches a
\* handler: it is answered 403 (401 if the token select fails)
C32_Mismatch ==
  \A p \in Procs :
    (pc[p] = "t_auth" /\ req[p].client_id = ClientB /\ pc'[p] # "t_auth") =>
      /\ pc'[p] = "done" /\ req'[p] = req[p]
      /\ resp'[p].status = IF BadToken(req[p].token) \/ "tokens.get" \in FailedCalls(p)'
                             THEN 401 ELSE 403
      /\ UNCHANGED <<appts, events, nextEvent, idem>>

\* C32: tenant isolation: a cancel, reschedule or find made with A's token
\* never changes or returns an appointment of B, even when it names B's
\* appointment id, and a request whose body client_id differs from the
\* token's client is rejected with 403 without any store or calendar change.
C32_TenantIsolation == [](C32_Returned) /\ [][C32_Untouched /\ C32_Mismatch]_vars

\* a cancel with A's token that named B's row 1 has been refused and row 1 is
\* still booked
C32_Witness ==
  \E p \in Procs :
    /\ IsCancel(p) /\ Done(p) /\ req[p].appointment_id = 1 /\ C32_OfB(1)
    /\ resp[p].status = 500 /\ Calls(p) = {"idem.get", "appts.load"}
    /\ appts[1].status = "booked"

\* ------------------------------------------------------------------ C33
\* C33 (as claimed, read when no handler is running): every appointment with
\* status booked and an event id refers to a calendar event that exists,
\* also after failed or partially failed book, cancel and reschedule calls.
C33_BookedRowHasEvent ==
  Quiet =>
    \A i \in 1..Len(appts) :
      (appts[i].status = "booked" /\ appts[i].google_event_id # 0)
        => \E ev \in events : ev.id = appts[i].google_event_id

\* ------------------------------------------------------------------ C34
\* the interval of the retried request was bookable when the first attempt
\* arrived: no booked row of the client overlaps it, and no event in the
\* client's calendar overlaps it but the one the first attempt created
C34_WasBookable ==
  LET r == req[2] IN
  /\ ~hasOverlapInSupabase(r.client_id, r.start_time, r.end_time, 0)
  /\ \A ev \in events :
       (ev.cal = r.client_id /\ Overlaps(ev.s, ev.e, r.start_time, r.end_time))
         => ev.id = loc[1].google_event_id

\* C34 (as claimed): if a book fails with an upstream error at any step, the
\* store insert after the event creation included, and the caller retries the
\* same request with the same key once store and calendar work again, with no
\* other request in between, the retry books the interval.
C34_RetrySucceeds ==
  (pc[2] = "done" /\ C34_WasBookable) => resp[2].status = 200

\* ------------------------------------------------------------------ C35
\* nothing but appointment X itself and its event overlaps the interval that
\* the book in slot 2 asks for; a reschedule moved X to an interval that does
\* not overlap the former one
C35_NothingElse ==
  LET r == req[2]
      X == loc[1].old_id
  IN  /\ \A i \in 1..Len(appts) :
           (i # X /\ appts[i].client_id = r.client_id /\ appts[i].status = "booked")
             => ~Overlaps(appts[i].start_time, appts[i].end_time, r.start_time, r.end_time)
      /\ \A ev \in events :
           (ev.cal = r.client_id /\ ev.id # loc[1].old_event_id)
             => ~Overlaps(ev.s, ev.e, r.start_time, r.end_time)
      /\ IsReschedule(1) =>
           ~Overlaps(req[1].start_time, req[1].end_time, r.start_time, r.end_time)

\* C35 (as claimed): after a successful cancel of appointment X, or a
\* successful reschedule of X to a non-overlapping interval, a book of X's
\* former interval by the same client, with a new key and nothing else
\* overlapping, is not rejected as a conflict in the store or the calendar.
C35_FormerIntervalReleased ==
  (pc[2] = "done" /\ C35_NothingElse) => resp[2].status # 409

\* ------------------------------------------------------------------ C36
\* the handler of slot p ran on its own (no replay) and answered ok
C36_Succeeded(p) ==
  /\ (IsCancel(p) \/ IsReschedule(p)) /\ Done(p)
  /\ resp[p].status = 200 /\ "appts.load" \in Calls(p)

\* of the cancels and reschedules that name the same appointment, one succeeds
C36_OneSucceeds ==
  \A p, q \in Procs :
    (C36_Succeeded(p) /\ C36_Succeeded(q) /\ req[p].appointment_id = req[q].appointment_id)
      => p = q

\* no two rows name the same previous appointment
C36_OneSuccessor ==
  \A i, j \in 1..Len(appts) :
    (appts[i].previous_appointment_id # 0
       /\ appts[i].previous_appointment_id = appts[j].previous_appointment_id)
      => i = j

\* the status update is issued on a row that is still booked, and a row that
\* has left booked keeps its status
C36_UpdateStep ==
  /\ \A p \in Procs :
       (pc[p] \in {"c_update", "r_update"} /\ pc'[p] # pc[p])
         => appts[loc[p].old_id].status = "booked"
  /\ \A i \in 1..Len(appts) :
       appts[i].status # "booked" => appts'[i].status = appts[i].status

\* C36: an appointment has at most one successor and leaves status booked at
\* most once: under any interleaving of cancel and reschedule requests that
\* target the same appointment X at most one succeeds, and there are never
\* two appointments whose previous_appointment_id is X.
C36_AtMostOneSuccessor ==
  [](C36_OneSucceeds /\ C36_OneSuccessor) /\ [][C36_UpdateStep]_vars

\* two requests on appointment 2 got past the checks; one succeeded, the
\* other was stopped by events.delete
C36_Witness ==
  \E p, q \in Procs :
    /\ C36_Succeeded(p) /\ IsReschedule(p)
    /\ (IsCancel(q) \/ IsReschedule(q)) /\ Done(q) /\ resp[q].status = 500
    /\ req[q].appointment_id = req[p].appointment_id
    /\ req[q].idempotency_key # req[p].idempotency_key
    /\ "cal.delete" \in FailedCalls(q)
    /\ \E i \in 1..Len(appts) : appts[i].previous_appointment_id = req[p].appointment_id

\* ------------------------------------------------------------------ C37
C37_LocalDay(p, t) == LocalMin(t, req[p].rules.timezone) \div 1440

\* C37 (as claimed): every interval that validate accepts under rules with
\* weekends disallowed lies within a single weekday, between start_hour and
\* end_hour of that day in the rules' timezone, and does not overlap that
\* day's lunch window; an interval that ends on a later calendar day than it
\* starts, or on a weekend, is rejected.
C37_AcceptedWithinOneWeekday ==
  \A p \in Procs :
    (IsValidate(p) /\ resp[p].ok /\ ~req[p].rules.allow_weekends) =>
      LET r   == req[p]
          tz  == r.rules.timezone
      IN  /\ C37_LocalDay(p, r.start_time) = C37_LocalDay(p, r.end_time)
          /\ Weekday(r.start_time, tz) \notin {6, 7}
          /\ Weekday(r.end_time, tz) \notin {6, 7}
          /\ MinOfDay(r.start_time, tz) >= r.rules.start_hour * 60
          /\ MinOfDay(r.end_time, tz) <= r.rules.end_hour * 60
          /\ r.rules.lunch_start_hour # Null =>
               ~Overlaps(SetHour(r.start_time, tz, r.rules.lunch_start_hour),
                         SetHour(r.start_time, tz, r.rules.lunch_end_hour),
                         r.start_time, r.end_time)

\* ------------------------------------------------------------------ C38
\* a request that has reached the list step is answered
C38_Terminates ==
  \A p \in Procs : (pc[p] = "a_list") ~> (pc[p] = "done")

C38_ListShape ==
  \A p \in Procs :
    Answered(p) =>
      LET rules    == getDefaultBusinessRules(resp[p].timezone)
          dayStart == At(rules.timezone, req[p].date, rules.start_hour, 0)
          dayEnd   == At(rules.timezone, req[p].date, rules.end_hour, 0)
          slots    == resp[p].slots
      IN  /\ Len(slots) <= ((rules.end_hour - rules.start_hour) * 60) \div rules.step_minutes
          /\ \A n \in 1..Len(slots) :
               /\ (fromISO(slots[n].start_time) - dayStart) % rules.step_minutes = 0
               /\ fromISO(slots[n].start_time) >= dayStart
               /\ fromISO(slots[n].end_time) - fromISO(slots[n].start_time)
                    = req[p].duration_minutes
               /\ fromISO(slots[n].end_time) <= dayEnd
               /\ n > 1 => fromISO(slots[n - 1].start_time) < fromISO(slots[n].start_time)

C39_Unique ==
  \A a, b \in idem :
    (a.client_id = b.client_id /\ a.tool_name = b.tool_name
       /\ a.idempotency_key = b.idempotency_key) => a = b

\* the ledger lookup of a handler answers with a stored response exactly when
\* the lookup succeeds and the ledger holds a row for the request's own
\* client, tool and key, and then with that row's response
C39_LookupStep ==
  \A p \in Procs :
    (pc[p] \in {"b_idem", "c_idem", "r_idem"} /\ pc'[p] # pc[p]) =>
      LET own    == IdemRows(req[p].client_id, req[p].op, req[p].idempotency_key)
          replay == pc'[p] = "done" /\ resp'[p].status = 200
      IN  /\ replay => \E row \in own : row.response = resp'[p]
          /\ (own # {} /\ "idem.get" \notin FailedCalls(p)') => replay

\* C39: ledger entries are scoped by the whole triple (client, tool, key): a
\* response recorded for one client or one tool is never replayed for another
\* client or another tool that uses the same key string, so a key used for a
\* successful book does not short-circuit a later cancel or reschedule.
C39_LedgerScopedByTriple == [](C39_Unique) /\ [][C39_LookupStep]_vars

\* a cancel ran to its end under key k1 while the ledger holds the response
\* of the client's book under k1
C39_Witness ==
  \E p \in Procs :
    /\ C36_Succeeded(p) /\ IsCancel(p)
    /\ IdemRows(req[p].client_id, "book-appointment", req[p].idempotency_key) # {}
    /\ \E row \in IdemRows(ClientB, "book-appointment", req[p].idempotency_key) : TRUE

\* ------------------------------------------------------------------ C40
C40_Order == <<"clients.get", "retell.get", "calls.insert", "email.send">>

\* the detached calls of slot p, in the order they were made
C40_Detached(p) == SelectSeq(trace[p], LAMBDA c : c.call \in DetachedCalls)

\* the detached calls are made in the order client lookup, call fetch,
\* call-log insert, email send, each at most once
C40_InOrder ==
  \A p \in Procs :
    IsWebhook(p) =>
      /\ Len(C40_Detached(p)) <= 4
      /\ \A n \in 1..Len(C40_Detached(p)) : C40_Detached(p)[n].call = C40_Order[n]

\* a step is made only after every earlier step succeeded
C40_AfterSuccess ==
  \A p \in Procs :
    IsWebhook(p) =>
      \A n \in 1..Len(C40_Detached(p)) :
        \A m \in 1..(n - 1) : C40_Detached(p)[m].ok

\* C40 (as claimed): the detached steps run in the order client lookup, call
\* fetch, call-log insert, email send, each only if all earlier steps
\* succeeded: no email is sent for a call whose fetch failed or whose call-log
\* row was not persisted, and at most one email is sent per accepted webhook.
C40_StepsInOrder == C40_InOrder /\ C40_AfterSuccess
====
